---- MODULE Spec2Model ----
(***************************************************************************)
(* A model of the SpeakBright speech-therapy backend:                      *)
(*   services/ethics.py                 (safety filter, tiers, dialects)   *)
(*   services/pronunciation_scoring.py  (phoneme confidence scoring)       *)
(*   services/feedback_generator.py     (per-phoneme feedback)             *)
(*   services/exercise_generator.py     (exercise selection)               *)
(*   services/speech_analysis.py        (the analysis pipeline, progress)  *)
(*                                                                         *)
(* Numbers: a confidence is an integer number of 1/10000 (0.75 is 7500),   *)
(* so that the thresholds, the jitter of +-0.03 and three-decimal inputs   *)
(* such as 0.749 are all exact.  Text is a TLA+ string; the filter works   *)
(* on its characters (SubSeq, Len and \o apply to strings).                *)
(***************************************************************************)
EXTENDS Integers, Sequences, FiniteSets, TLC

VARIABLES
    feedback,       \* ethics: the dict ensure_child_safety is working on
    original,       \* ethics: the dict as it was before the first pass
    returned,       \* ethics: what each pass of ensure_child_safety returned
    expected_phoneme,   \* calculate_phoneme_confidence: its arguments ...
    detected_phoneme,
    acoustic_score,     \* <<>> is None, <<x>> the value x
    variation,          \* the draw of np.random.uniform(-0.03, 0.03)
    confidence,         \* ... and its result (<<>> before the call)
    adjusted,           \* dialect adjuster: the adjusted confidence
    POCKETSPHINX_AVAILABLE, \* scoring: the import of pocketsphinx succeeded
    decoder,            \* scoring: FreePronunciationScorer.decoder is set
    target_word,        \* scoring: the word to score
    decoding,           \* scoring: what the decoder does with this audio
    audio_quality,      \* scoring: quality_factor of the audio (<<>>: the
                        \* feature extraction raises)
    phoneme_scores,     \* scoring: what score_pronunciation returned
    scored,             \* scoring: score_pronunciation has returned
    exercises,          \* exercises: <<>> before generate_exercises ran,
                        \* <<the list it returned>> after
    previous_scores,    \* progress: the history calculate_progress is given
    progress_info,      \* progress: <<>> before calculate_progress ran,
                        \* <<its outcome>> after
    user_progress_db,   \* pipeline: user id -> list of ProgressData
    requests,           \* pipeline: the calls of analyze_speech made so far
    clock,              \* pipeline: datetime.now(), counted in steps
    response,           \* pipeline: <<>>, or <<the outcome of the analysis
                        \* that finished last>>
    safety_checked,     \* pipeline: the parts of that analysis' result that
                        \* were handed to ensure_child_safety
    summary,            \* pipeline: <<>>, or <<what get_user_progress_summary
                        \* returned last>>
    phoneme_feedback,   \* feedback: <<>> before generate_feedback ran,
                        \* <<the list it returned>> after
    encouragement_level,    \* feedback: "" before get_encouragement_level
                            \* ran, the tier it returned after
    corrective_feedback,    \* feedback: <<>>, or <<what
                            \* should_give_corrective_feedback returned>>
    overall                 \* analysis: <<>>, or <<the overall score computed
                            \* from phoneme_scores>>

safetyVars == <<feedback, original, returned>>

confidenceVars == <<expected_phoneme, detected_phoneme, acoustic_score,
                    variation, confidence, adjusted>>

scoreVars == <<POCKETSPHINX_AVAILABLE, decoder, target_word, decoding,
               audio_quality, phoneme_scores, scored>>

exerciseVars == <<exercises>>

progressVars == <<previous_scores, progress_info>>

pipelineVars == <<user_progress_db, requests, clock, response, safety_checked,
                  summary>>

feedbackVars == <<phoneme_feedback, encouragement_level, corrective_feedback,
                  overall>>

vars == <<safetyVars, confidenceVars, scoreVars, exerciseVars, progressVars,
          pipelineVars, feedbackVars>>

(***************************************************************************)
(* The components a specification does not exercise stay as constructed.   *)
(***************************************************************************)
SafetyIdle ==
    /\ feedback = <<>>
    /\ original = <<>>
    /\ returned = <<>>

ConfidenceIdle ==
    /\ expected_phoneme = ""
    /\ detected_phoneme = ""
    /\ acoustic_score = <<>>
    /\ variation = 0
    /\ confidence = <<>>
    /\ adjusted = <<>>

ScoreIdle ==
    /\ POCKETSPHINX_AVAILABLE = FALSE
    /\ decoder = FALSE
    /\ target_word = ""
    /\ decoding = [outcome |-> "none", segments |-> <<>>]
    /\ audio_quality = <<>>
    /\ phoneme_scores = <<>>
    /\ scored = FALSE

ExerciseIdle == exercises = <<>>

ProgressIdle ==
    /\ previous_scores = <<>>
    /\ progress_info = <<>>

PipelineIdle ==
    /\ user_progress_db = [user_id \in {} |-> <<>>]
    /\ requests = <<>>
    /\ clock = 0
    /\ response = <<>>
    /\ safety_checked = {}
    /\ summary = <<>>

FeedbackIdle ==
    /\ phoneme_feedback = <<>>
    /\ encouragement_level = ""
    /\ corrective_feedback = <<>>
    /\ overall = <<>>

(***************************************************************************)
(* Helpers                                                                 *)
(***************************************************************************)
Min(a, b) == IF a <= b THEN a ELSE b

Max(a, b) == IF a >= b THEN a ELSE b

Range(s) == {s[i] : i \in 1..Len(s)}

(***************************************************************************)
(* Text.  str.lower(), `x in s`, and re.sub with re.IGNORECASE.            *)
(***************************************************************************)
LowerCase ==
    [A |-> "a", B |-> "b", C |-> "c", D |-> "d", E |-> "e", F |-> "f",
     G |-> "g", H |-> "h", I |-> "i", J |-> "j", K |-> "k", L |-> "l",
     M |-> "m", N |-> "n", O |-> "o", P |-> "p", Q |-> "q", R |-> "r",
     S |-> "s", T |-> "t", U |-> "u", V |-> "v", W |-> "w", X |-> "x",
     Y |-> "y", Z |-> "z"]

UpperCase == DOMAIN LowerCase

\* str.lower() of a one-character string
LowerChar(c) == IF c \in UpperCase THEN LowerCase[c] ELSE c

RECURSIVE LowerFrom(_, _)
LowerFrom(s, i) ==
    IF i > Len(s) THEN ""
    ELSE LowerChar(SubSeq(s, i, i)) \o LowerFrom(s, i + 1)

\* str.lower()
Lower(s) == LowerFrom(s, 1)

\* `w in s` for two strings
Contains(s, w) ==
    \E i \in 1..(Len(s) - Len(w) + 1) : SubSeq(s, i, i + Len(w) - 1) = w

\* re.compile(re.escape(banned), re.IGNORECASE).sub(replacement, value):
\* every non-overlapping match, leftmost first, is replaced
RECURSIVE SubFrom(_, _, _, _)
SubFrom(banned, replacement, value, i) ==
    IF i > Len(value) THEN ""
    ELSE IF /\ i + Len(banned) - 1 <= Len(value)
            /\ Lower(SubSeq(value, i, i + Len(banned) - 1)) = banned
         THEN replacement \o SubFrom(banned, replacement, value, i + Len(banned))
         ELSE SubSeq(value, i, i) \o SubFrom(banned, replacement, value, i + 1)

PatternSub(banned, replacement, value) == SubFrom(banned, replacement, value, 1)

(***************************************************************************)
(* feedback_generator: its texts.  They are the source's without their     *)
(* emoji (a visual_cue, which is nothing but an emoji, is written as its   *)
(* name; the dash of "learning-that's" is a hyphen).                       *)
(***************************************************************************)
GENERAL_ENCOURAGEMENT == <<
    "Nice try! I love how hard you're working!",
    "Great effort! Let's keep going together!",
    "You're learning-that's so cool!",
    "Every try helps your voice get stronger!" >>

ADDITIONAL_ENCOURAGEMENT == <<
    "Wow, you're doing awesome! Keep it up!",
    "I can see you trying really hard! That's amazing!",
    "You're being so brave! I'm proud of you!",
    "Keep going! You're learning something new!" >>

\* PRACTICE_ENCOURAGEMENT["specific_sound"]
PRACTICE_ENCOURAGEMENT ==
    [r |-> "Almost there! Let's make the 'r' sound a little stronger.",
     s |-> "Nice job! We can help the 's' sound sound even clearer.",
     th |-> "That was a great start! Let's practice the 'th' sound together.",
     l |-> "Great job! Let's make the 'l' sound a bit clearer.",
     f |-> "Nice try! Let's work on the 'f' sound together.",
     v |-> "Good effort! Let's practice the 'v' sound.",
     default |-> "Let's practice that sound together! You've got this!"]

ARTICULATION_TIPS ==
    [r |-> [visual_cue |-> "slide",
            tip |-> "Try curling your tongue back like a little slide!",
            alternative |-> "Let your tongue hide a bit inside your mouth.",
            mouth_position |-> "tongue_back",
            explanation |-> "The R sound needs your tongue to curl back"],
     s |-> [visual_cue |-> "snake",
            tip |-> "Smile a little and push the air forward like a snake!",
            alternative |-> "Let the air flow straight out.",
            mouth_position |-> "teeth_together",
            explanation |-> "The S sound is made by pushing air through your teeth"],
     th |-> [visual_cue |-> "tongue",
             tip |-> "Gently peek your tongue between your teeth!",
             alternative |-> "Let your tongue say hello!",
             mouth_position |-> "tongue_between_teeth",
             explanation |-> "The TH sound needs your tongue to peek out"],
     l |-> [visual_cue |-> "musical note",
            tip |-> "Touch the top of your mouth with your tongue tip!",
            alternative |-> "Your tongue wants to touch the ceiling!",
            mouth_position |-> "tongue_to_roof",
            explanation |-> "The L sound is made by touching the roof of your mouth"],
     f |-> [visual_cue |-> "wind face",
            tip |-> "Gently bite your bottom lip and blow air!",
            alternative |-> "Your top teeth touch your bottom lip softly.",
            mouth_position |-> "teeth_on_lip",
            explanation |-> "The F sound is made by blowing air over your lip"],
     v |-> [visual_cue |-> "honeybee",
            tip |-> "Just like 'f' but make your voice buzz like a bee!",
            alternative |-> "Your voice box makes a humming sound!",
            mouth_position |-> "teeth_on_lip",
            explanation |-> "The V sound is like F, but your voice buzzes"],
     b |-> [visual_cue |-> "collision",
            tip |-> "Put your lips together and pop them open!",
            alternative |-> "Make a little explosion with your lips!",
            mouth_position |-> "lips_together",
            explanation |-> "The B sound starts with closed lips"],
     p |-> [visual_cue |-> "balloon",
            tip |-> "Close your lips and blow out air!",
            alternative |-> "Pop your lips like a bubble!",
            mouth_position |-> "lips_together",
            explanation |-> "The P sound is a quiet lip pop"]]

(***************************************************************************)
(* ethics.ensure_child_safety                                              *)
(*                                                                         *)
(* A Python value is a record [t, v]: t = "str" (v a string), "dict" (v a  *)
(* function from keys to values), "list" (v a sequence of values) or       *)
(* "other" (a number, a bool, None).                                       *)
(***************************************************************************)
Str(s) == [t |-> "str", v |-> s]

Dict(d) == [t |-> "dict", v |-> d]

List(l) == [t |-> "list", v |-> l]

Other(x) == [t |-> "other", v |-> x]

\* banned_replacements, in the dict's (insertion) order
banned_replacements == <<
    <<"wrong", "let's practice">>,
    <<"bad", "needs practice">>,
    <<"incorrect", "let's try">>,
    <<"failed", "learning">>,
    <<"poor", "developing">>,
    <<"terrible", "growing">>,
    <<"error", "learning opportunity">>,
    <<"mistake", "practice opportunity">>,
    <<"can't", "learning to">>,
    <<"unable", "working on">> >>

\* The inner loop over banned_replacements for one string value.  `value` and
\* `value_lower` are bound once, before the loop: every replacement is made
\* in the ORIGINAL value and overwrites feedback[key], so `current` (what
\* feedback[key] holds so far) is never read.
RECURSIVE ReplaceFrom(_, _, _, _)
ReplaceFrom(value, value_lower, current, k) ==
    IF k > Len(banned_replacements) THEN current
    ELSE LET banned == banned_replacements[k][1]
             replacement == banned_replacements[k][2]
         IN  IF Contains(value_lower, banned)
             THEN ReplaceFrom(value, value_lower,
                              PatternSub(banned, replacement, value), k + 1)
             ELSE ReplaceFrom(value, value_lower, current, k + 1)

ReplaceLoop(value, current, k) == ReplaceFrom(value, Lower(value), current, k)

\* The loop's result on the texts of feedback_generator, computed once: the
\* loop gives the same on them each time it runs.
TemplateTexts ==
    Range(GENERAL_ENCOURAGEMENT) \cup Range(ADDITIONAL_ENCOURAGEMENT)
    \cup {PRACTICE_ENCOURAGEMENT[k] : k \in DOMAIN PRACTICE_ENCOURAGEMENT}
    \cup UNION {{ARTICULATION_TIPS[k].tip, ARTICULATION_TIPS[k].explanation,
                 ARTICULATION_TIPS[k].visual_cue,
                 ARTICULATION_TIPS[k].mouth_position} :
                    k \in DOMAIN ARTICULATION_TIPS}
    \cup {"Let's practice this sound together!", "neutral", "sparkles",
          "direct hit"}

ReplacedTemplates == [value \in TemplateTexts |-> ReplaceLoop(value, value, 1)]

ReplaceIn(value) ==
    IF value \in TemplateTexts THEN ReplacedTemplates[value]
    ELSE ReplaceLoop(value, value, 1)

RECURSIVE ensure_child_safety(_)
ensure_child_safety(fb) ==
    [key \in DOMAIN fb |->
        LET value == fb[key] IN
        CASE value.t = "str"  -> Str(ReplaceIn(value.v))
          [] value.t = "dict" -> Dict(ensure_child_safety(value.v))
          [] value.t = "list" ->
                List([i \in 1..Len(value.v) |->
                        IF value.v[i].t = "dict"
                        THEN Dict(ensure_child_safety(value.v[i].v))
                        ELSE value.v[i]])
          [] OTHER -> value]

\* validate-style scan used by the properties: the strings of a value, at
\* any depth
RECURSIVE StringsOf(_)
StringsOf(value) ==
    CASE value.t = "str"  -> {value.v}
      [] value.t = "dict" ->
            UNION {StringsOf(value.v[k]) : k \in DOMAIN value.v}
      [] value.t = "list" ->
            UNION {StringsOf(value.v[i]) : i \in 1..Len(value.v)}
      [] OTHER -> {}

BannedWords == {banned_replacements[k][1] : k \in 1..Len(banned_replacements)}

HasBannedWord(s) == \E b \in BannedWords : Contains(Lower(s), b)

(***************************************************************************)
(* Specification SpecSafety: the filter applied, and applied again, to a   *)
(* feedback dict.                                                          *)
(***************************************************************************)
\* how many times the filter is run on one dict
MaxPasses == 2

\* the text fragments the input strings are built from: every banned word,
\* some capitalised, a word only validate_no_harsh_language knows, and
\* clean text
Fragments == {"Wrong", "bad", "INCORRECT", "failed", "poor", "Terrible",
              "error", "mistake", "can't", "unable", "penalty", "nice try"}

Texts == Fragments \cup {a \o " " \o b : a \in Fragments, b \in Fragments}

\* the shapes of dict the filter is given: a string at the top level, in a
\* nested dict, in a dict inside a list, and directly inside a list
FeedbackDicts ==
    {[tip |-> Str(x), confidence |-> Other(5500)] : x \in Texts}
    \cup {[detail |-> Dict([message |-> Str(x)])] : x \in Texts}
    \cup {[items |-> List(<<Dict([message |-> Str(x)])>>)] : x \in Texts}
    \cup {[items |-> List(<<Str(x), Other(1)>>)] : x \in Texts}

InitSafety ==
    /\ feedback \in FeedbackDicts
    /\ original = feedback
    /\ returned = <<>>
    /\ ConfidenceIdle
    /\ ScoreIdle
    /\ ExerciseIdle
    /\ ProgressIdle
    /\ PipelineIdle
    /\ FeedbackIdle

EnsureChildSafety ==
    /\ Len(returned) < MaxPasses
    /\ feedback' = ensure_child_safety(feedback)
    /\ returned' = Append(returned, feedback')
    /\ UNCHANGED <<original, confidenceVars, scoreVars, exerciseVars,
                   progressVars, pipelineVars, feedbackVars>>

NextSafety == EnsureChildSafety

SpecSafety == InitSafety /\ [][NextSafety]_vars

(***************************************************************************)
(* C1: after one call of ensure_child_safety no string anywhere in the     *)
(* returned structure contains a banned word, in any letter case, also     *)
(* when one string holds two different banned words.                       *)
(***************************************************************************)
C1_NoBannedWordSurvives ==
    Len(returned) >= 1 =>
        \A s \in StringsOf(Dict(returned[1])) : ~HasBannedWord(s)

(***************************************************************************)
(* C2: ensure_child_safety is idempotent: a second pass over the result    *)
(* of the first pass changes nothing.                                      *)
(***************************************************************************)
C2_Idempotent ==
    Len(returned) >= 2 => returned[2] = returned[1]

(***************************************************************************)
(* pronunciation_scoring: the tables                                       *)
(***************************************************************************)
CMU_TO_SIMPLE ==
    "B" :> "b" @@ "P" :> "p" @@ "M" :> "m" @@ "T" :> "t" @@ "D" :> "d" @@
    "N" :> "n" @@ "K" :> "k" @@ "G" :> "g" @@ "NG" :> "ng" @@ "F" :> "f" @@
    "V" :> "v" @@ "TH" :> "th" @@ "DH" :> "th" @@ "S" :> "s" @@ "Z" :> "z" @@
    "SH" :> "sh" @@ "ZH" :> "zh" @@ "HH" :> "h" @@ "W" :> "w" @@ "Y" :> "y" @@
    "L" :> "l" @@ "R" :> "r" @@ "CH" :> "ch" @@ "JH" :> "j" @@ "AA" :> "ah" @@
    "AE" :> "ae" @@ "AH" :> "uh" @@ "AO" :> "aw" @@ "AW" :> "ow" @@ "AY" :> "ai" @@
    "EH" :> "eh" @@ "ER" :> "er" @@ "EY" :> "ey" @@ "IH" :> "ih" @@ "IY" :> "ee" @@
    "OW" :> "oh" @@ "OY" :> "oy" @@ "UH" :> "uh" @@ "UW" :> "oo" @@ "AA0" :> "ah" @@
    "AA1" :> "ah" @@ "AA2" :> "ah" @@ "AE0" :> "ae" @@ "AE1" :> "ae" @@ "AE2" :> "ae" @@
    "AH0" :> "uh" @@ "AH1" :> "uh" @@ "AH2" :> "uh" @@ "AO0" :> "aw" @@ "AO1" :> "aw" @@
    "AO2" :> "aw" @@ "AW0" :> "ow" @@ "AW1" :> "ow" @@ "AW2" :> "ow" @@ "AY0" :> "ai" @@
    "AY1" :> "ai" @@ "AY2" :> "ai" @@ "EH0" :> "eh" @@ "EH1" :> "eh" @@ "EH2" :> "eh" @@
    "ER0" :> "er" @@ "ER1" :> "er" @@ "ER2" :> "er" @@ "EY0" :> "ey" @@ "EY1" :> "ey" @@
    "EY2" :> "ey" @@ "IH0" :> "ih" @@ "IH1" :> "ih" @@ "IH2" :> "ih" @@ "IY0" :> "ee" @@
    "IY1" :> "ee" @@ "IY2" :> "ee" @@ "OW0" :> "oh" @@ "OW1" :> "oh" @@ "OW2" :> "oh" @@
    "OY0" :> "oy" @@ "OY1" :> "oy" @@ "OY2" :> "oy" @@ "UH0" :> "uh" @@ "UH1" :> "uh" @@
    "UH2" :> "uh" @@ "UW0" :> "oo" @@ "UW1" :> "oo" @@ "UW2" :> "oo"

WORD_PHONEMES ==
    "butterfly" :> <<"B", "AH1", "T", "ER0", "F", "L", "AY2">> @@
    "rainbow" :> <<"R", "EY1", "N", "B", "OW2">> @@
    "hi" :> <<"HH", "AY1">> @@
    "me" :> <<"M", "IY1">> @@
    "sun" :> <<"S", "AH1", "N">> @@
    "jumping" :> <<"JH", "AH1", "M", "P", "IH0", "NG">> @@
    "happy" :> <<"HH", "AE1", "P", "IY0">> @@
    "red" :> <<"R", "EH1", "D">> @@
    "run" :> <<"R", "AH1", "N">> @@
    "rain" :> <<"R", "EY1", "N">> @@
    "see" :> <<"S", "IY1">> @@
    "sit" :> <<"S", "IH1", "T">> @@
    "sea" :> <<"S", "IY1">> @@
    "think" :> <<"TH", "IH1", "NG", "K">> @@
    "thank" :> <<"TH", "AE1", "NG", "K">> @@
    "three" :> <<"TH", "R", "IY1">> @@
    "like" :> <<"L", "AY1", "K">> @@
    "let" :> <<"L", "EH1", "T">> @@
    "look" :> <<"L", "UH1", "K">> @@
    "fun" :> <<"F", "AH1", "N">> @@
    "find" :> <<"F", "AY1", "N", "D">> @@
    "fall" :> <<"F", "AO1", "L">>

DIALECT_VARIATIONS ==
    "TH" :> {"D", "T"} @@
    "DH" :> {"D", "T"} @@
    "R"  :> {"W", "AH0"} @@
    "NG" :> {"N"}

\* CMU_TO_SIMPLE.get(ph, ph.lower())
SimplePhoneme(ph) ==
    IF ph \in DOMAIN CMU_TO_SIMPLE THEN CMU_TO_SIMPLE[ph] ELSE Lower(ph)

(***************************************************************************)
(* Rounding.  round(x, 2) of a confidence x = num/den (in 1/10000): the    *)
(* nearest multiple of 100.  At an exact tie (x.xx5) the float result      *)
(* depends on the binary representation of x; the model rounds a tie to    *)
(* the even hundredth, and the random draws of the specifications below    *)
(* are chosen so that no tie arises.                                       *)
(***************************************************************************)
RoundDiv(num, den) ==
    LET q == num \div den
        r == num % den
    IN  IF 2 * r < den THEN q
        ELSE IF 2 * r > den THEN q + 1
        ELSE IF q % 2 = 0 THEN q ELSE q + 1

Round2(num, den) == 100 * RoundDiv(num, den * 100)

\* np.clip without its lower bound
Clip_NoFloor(x, lo, hi) == Min(hi, x)

\* np.clip(x, lo, hi)
Clip(x, lo, hi) == Min(hi, Max(lo, x))

(***************************************************************************)
(* FreePronunciationScorer.calculate_phoneme_confidence                    *)
(***************************************************************************)
VowelSymbols == {"AA", "AE", "AH", "EH", "IH", "IY", "UH"}

SimilarConsonants ==
    {<<"P", "B">>, <<"T", "D">>, <<"K", "G">>,
     <<"F", "V">>, <<"S", "Z">>, <<"SH", "ZH">>,
     <<"TH", "F">>, <<"TH", "S">>}

\* the if/elif chain that picks base_confidence
BaseConfidence(expected, detected) ==
    IF expected = detected THEN 9500
    ELSE IF expected \in DOMAIN DIALECT_VARIATIONS
         THEN IF detected \in DIALECT_VARIATIONS[expected] THEN 9200 ELSE 6500
    ELSE IF expected \in VowelSymbols /\ detected \in VowelSymbols THEN 7500
    ELSE IF <<expected, detected>> \in SimilarConsonants THEN 7000
    ELSE 6000

\* `if acoustic_score:` is false for None and for 0
\* acoustic_factor = min(1.0, max(0.0, (acoustic_score + 5000) / 5000))
AcousticAdjusted(base, score) ==
    IF score = <<>> \/ score[1] = 0 THEN base
    ELSE LET acoustic_factor == Min(10000, Max(0, (score[1] + 5000) * 2))
         IN  (base + acoustic_factor) \div 2

calculate_phoneme_confidence(expected, detected, score, jitter) ==
    LET base == AcousticAdjusted(BaseConfidence(expected, detected), score)
    IN  Round2(Clip(base + jitter, 5000, 10000), 1)

(***************************************************************************)
(* FreePronunciationScorer.score_with_pocketsphinx.  The result is         *)
(* [none |-> TRUE] for None, else [none |-> FALSE, scores |-> the list].   *)
(* jitter[i] is the draw of np.random.uniform(-0.03, 0.03) made for the    *)
(* phoneme at position i.                                                  *)
(***************************************************************************)
None == [none |-> TRUE, scores |-> <<>>]

Some(list) == [none |-> FALSE, scores |-> list]

\* WORD_PHONEMES.get(word.lower(), []) whatever default is asked for
ExpectedPhonemes_NoDefault(word, default) ==
    IF Lower(word) \in DOMAIN WORD_PHONEMES
    THEN WORD_PHONEMES[Lower(word)]
    ELSE <<>>

\* WORD_PHONEMES.get(word.lower(), default)
ExpectedPhonemes(word, default) ==
    IF Lower(word) \in DOMAIN WORD_PHONEMES
    THEN WORD_PHONEMES[Lower(word)]
    ELSE default

\* the body of the loop `for i, expected_ph in enumerate(expected_phonemes)`
PocketsphinxScore(expected_ph, i, segments, jitter) ==
    LET present == i <= Len(segments)
        detected_ph == IF present THEN segments[i].word ELSE expected_ph
        conf == IF present
                THEN calculate_phoneme_confidence(
                         expected_ph, detected_ph, <<segments[i].prob>>, jitter)
                ELSE 5500
    IN  [phoneme |-> SimplePhoneme(expected_ph),
         expected |-> SimplePhoneme(expected_ph),
         confidence |-> conf,
         detected |-> detected_ph,
         is_pocketsphinx |-> TRUE]

score_with_pocketsphinx(has_decoder, decode, word, jitter) ==
    IF ~has_decoder THEN None
    ELSE IF decode.outcome = "raises" THEN None
    ELSE IF decode.outcome = "no_hypothesis" THEN None
    ELSE LET expected_phonemes == ExpectedPhonemes(word, <<>>)
         IN  Some([i \in 1..Len(expected_phonemes) |->
                     PocketsphinxScore(expected_phonemes[i], i,
                                       decode.segments, jitter[i])])

(***************************************************************************)
(* FreePronunciationScorer.enhanced_mock_scoring.  quality is <<>> when    *)
(* the feature extraction raises (quality_factor = 0.75), else <<q>> with  *)
(* q = (energy_norm + spectral_norm) / 2 in hundredths (0..100); draw[i]   *)
(* in 0..100 is where in its interval the i-th np.random.uniform fell, in  *)
(* percent.                                                                *)
(***************************************************************************)
difficult_sounds == {"R", "TH", "L", "S"}

\* quality_factor, in hundredths
QualityFactor(quality) == IF quality = <<>> THEN 75 ELSE quality[1]

\* base_confidence = np.random.uniform(0.60, 0.80) or (0.75, 0.92)
MockBase(cmu_phoneme, draw) ==
    IF cmu_phoneme \in difficult_sounds
    THEN 6000 + draw * 20
    ELSE 7500 + draw * 17

\* confidence = base * (0.5 + 0.5 * quality_factor)
\*                   * (1.0 - 0.15 * abs(i - n/2) / n), i counted from 0,
\* as the fraction num/den:
\*     0.5 + 0.5 * q/100               = (100 + q) / 200
\*     1 - 0.15 * (|2i - n| / 2) / n   = (40n - 3|2i - n|) / 40n
\* then np.clip(.., 0.50, 0.95) and round(.., 2)
MockConfidence(cmu_phoneme, i, n, quality_factor, draw) ==
    LET d   == IF 2 * i >= n THEN 2 * i - n ELSE n - 2 * i
        num == MockBase(cmu_phoneme, draw) * (100 + quality_factor)
                   * (40 * n - 3 * d)
        den == 200 * 40 * n
    IN  IF num < 5000 * den THEN 5000
        ELSE IF num > 9500 * den THEN 9500
        ELSE Round2(num, den)

enhanced_mock_scoring(quality, word, draw) ==
    LET expected_phonemes == ExpectedPhonemes(word, <<"UNK">>)
        n == Len(expected_phonemes)
    IN  [k \in 1..n |->
            [phoneme |-> SimplePhoneme(expected_phonemes[k]),
             expected |-> SimplePhoneme(expected_phonemes[k]),
             confidence |-> MockConfidence(expected_phonemes[k], k - 1, n,
                                           QualityFactor(quality), draw[k]),
             detected |-> expected_phonemes[k],
             is_mock |-> TRUE,
             quality_factor |-> QualityFactor(quality)]]

(***************************************************************************)
(* score_pronunciation                                                     *)
(***************************************************************************)
\* score_pronunciation without its last two lines: what PocketSphinx gave,
\* or nothing
score_pronunciation_NoFallback(available, has_decoder, decode, quality, word, jitter, draw) ==
    LET pocketsphinx_scores ==
            IF available /\ has_decoder
            THEN score_with_pocketsphinx(has_decoder, decode, word, jitter)
            ELSE None
    IN  IF ~pocketsphinx_scores.none /\ pocketsphinx_scores.scores # <<>>
        THEN pocketsphinx_scores.scores
        ELSE <<>>

score_pronunciation(available, has_decoder, decode, quality, word, jitter, draw) ==
    LET pocketsphinx_scores ==
            IF available /\ has_decoder
            THEN score_with_pocketsphinx(has_decoder, decode, word, jitter)
            ELSE None
    IN  IF ~pocketsphinx_scores.none /\ pocketsphinx_scores.scores # <<>>
        THEN pocketsphinx_scores.scores
        ELSE enhanced_mock_scoring(quality, word, draw)

(***************************************************************************)
(* Specification SpecConfidence: one call of calculate_phoneme_confidence. *)
(***************************************************************************)
ExpectedSymbols == {"TH", "DH", "R", "NG", "S", "AH", "P", "IY1"}

DetectedSymbols == {"TH", "D", "T", "W", "AH0", "N", "F", "Z", "AE", "B",
                    "S", "R", "IY1"}

\* None, the falsy 0, likelihoods inside and below the normalised range, and
\* a positive one
AcousticScores == {<<>>, <<0>>, <<-200>>, <<-1000>>, <<-2500>>, <<-6000>>, <<150>>}

\* draws of np.random.uniform(-0.03, 0.03)
Variations == {-290, -120, 10, 130, 290}

InitConfidence ==
    /\ expected_phoneme \in ExpectedSymbols
    /\ detected_phoneme \in DetectedSymbols
    /\ acoustic_score \in AcousticScores
    /\ variation \in Variations
    /\ confidence = <<>>
    /\ adjusted = <<>>
    /\ SafetyIdle
    /\ ScoreIdle
    /\ ExerciseIdle
    /\ ProgressIdle
    /\ PipelineIdle
    /\ FeedbackIdle

CalculatePhonemeConfidence ==
    /\ confidence = <<>>
    /\ confidence' = <<calculate_phoneme_confidence(
                          expected_phoneme, detected_phoneme,
                          acoustic_score, variation)>>
    /\ UNCHANGED <<expected_phoneme, detected_phoneme, acoustic_score,
                   variation, adjusted, safetyVars, scoreVars, exerciseVars,
                   progressVars, pipelineVars, feedbackVars>>

NextConfidence == CalculatePhonemeConfidence

SpecConfidence == InitConfidence /\ [][NextConfidence]_vars

(***************************************************************************)
(* Specification SpecScore: one call of score_pronunciation, in every      *)
(* condition of the backend.                                               *)
(***************************************************************************)
\* the longest segment list the decoder returns
MaxSegments == 2

\* the values a random draw takes: the jitter of the PocketSphinx path and,
\* for the mock path, the position of the uniform draw in its interval
\* (percent).  One call makes the draws of one path only, so the k-th draw
\* of a call is either JitterDraws[r] or BaseDraws[r].
JitterDraws == <<-290, 10, 290>>

BaseDraws == <<1, 47, 99>>

ScoreWords == {"hi", "three", "Sun", "xyzzy"}

SegmentValues == [word : {"TH", "D", "S"}, prob : {0, -1000, -6000}]

SegmentLists == UNION {[1..n -> SegmentValues] : n \in 0..MaxSegments}

\* quality_factor is a mean of two values clamped to [0, 1]
AudioQualities == {<<>>, <<0>>, <<60>>, <<100>>}

Decodings ==
    {[outcome |-> "raises", segments |-> <<>>],
     [outcome |-> "no_hypothesis", segments |-> <<>>]}
    \cup {[outcome |-> "segments", segments |-> s] : s \in SegmentLists}

\* the decoder is only ever set when the import succeeded (__init__)
InitScore ==
    /\ POCKETSPHINX_AVAILABLE \in BOOLEAN
    /\ decoder \in (IF POCKETSPHINX_AVAILABLE THEN BOOLEAN ELSE {FALSE})
    /\ target_word \in ScoreWords
    /\ decoding \in (IF decoder THEN Decodings
                     ELSE {[outcome |-> "none", segments |-> <<>>]})
    /\ audio_quality \in AudioQualities
    /\ phoneme_scores = <<>>
    /\ scored = FALSE
    /\ SafetyIdle
    /\ ConfidenceIdle
    /\ ExerciseIdle
    /\ ProgressIdle
    /\ PipelineIdle
    /\ FeedbackIdle

ScorePronunciation ==
    /\ ~scored
    /\ scored' = TRUE
    /\ LET n == Len(ExpectedPhonemes(target_word, <<"UNK">>)) IN
       \E r \in [1..n -> 1..Len(JitterDraws)] :
           phoneme_scores' = score_pronunciation(
               POCKETSPHINX_AVAILABLE, decoder, decoding, audio_quality,
               target_word,
               [i \in 1..n |-> JitterDraws[r[i]]],
               [i \in 1..n |-> BaseDraws[r[i]]])
    /\ UNCHANGED <<POCKETSPHINX_AVAILABLE, decoder, target_word, decoding,
                   audio_quality, safetyVars, confidenceVars, exerciseVars,
                   progressVars, pipelineVars, feedbackVars>>

NextScore == ScorePronunciation

SpecScore == InitScore /\ [][NextScore]_vars

(***************************************************************************)
(* C4: every phoneme score returned by score_pronunciation has a           *)
(* confidence between 0.50 and 1.00, on the PocketSphinx path (the fixed   *)
(* value of a missing segment included) and on the mock path.              *)
(***************************************************************************)
C4_ConfidenceInRange ==
    \A i \in 1..Len(phoneme_scores) :
        /\ phoneme_scores[i].confidence >= 5000
        /\ phoneme_scores[i].confidence <= 10000

\* a PocketSphinx result with a computed and a missing-segment score, one of
\* them clipped up to the floor
C4_Witness ==
    /\ Len(phoneme_scores) = 3
    /\ \A i \in 1..3 : "is_pocketsphinx" \in DOMAIN phoneme_scores[i]
    /\ Len(decoding.segments) = 2
    /\ phoneme_scores[1].confidence = 5000
    /\ phoneme_scores[3].confidence = 5500

\* a mock result whose score was clipped up to the floor
C4_WitnessMock ==
    /\ Len(phoneme_scores) > 0
    /\ \A i \in 1..Len(phoneme_scores) : "is_mock" \in DOMAIN phoneme_scores[i]
    /\ \E i \in 1..Len(phoneme_scores) : phoneme_scores[i].confidence = 5000

(***************************************************************************)
(* C8: a detected sound that is a recognised dialect variant of the        *)
(* expected phoneme never gets a lower confidence than an exact match      *)
(* gets under the same acoustic likelihood and the same jitter.            *)
(***************************************************************************)
C8_DialectNotBelowStandard ==
    (/\ confidence # <<>>
     /\ expected_phoneme \in DOMAIN DIALECT_VARIATIONS
     /\ detected_phoneme \in DIALECT_VARIATIONS[expected_phoneme])
    => confidence[1] >= calculate_phoneme_confidence(
                            expected_phoneme, expected_phoneme,
                            acoustic_score, variation)

(***************************************************************************)
(* ethics.is_dialect_variation, and the Dialect-Neutrality Adjuster that   *)
(* uses it.  The adjuster's code is not among the source files: it is      *)
(* modelled from its contract, adjust(expected, detected, confidence):     *)
(* +0.15 capped at 0.95 for a recognised variant, else unchanged.          *)
(***************************************************************************)
dialect_variations ==
    "th"  :> {"d", "t"} @@
    "r"   :> {"w", "ah"} @@
    "ing" :> {"in"}

is_dialect_variation(phoneme, detected) ==
    LET phoneme_lower == Lower(phoneme)
    IN  IF phoneme_lower \in DOMAIN dialect_variations
        THEN Lower(detected) \in dialect_variations[phoneme_lower]
        ELSE FALSE

adjust(expected, detected, c) ==
    IF is_dialect_variation(expected, detected)
    THEN Min(c + 1500, 9500)
    ELSE c

(***************************************************************************)
(* Specification SpecDialect: the adjuster applied to a raw confidence.    *)
(***************************************************************************)
AdjustExpected == {"th", "TH", "r", "ing", "s", "d"}

AdjustDetected == {"d", "T", "w", "ah", "in", "s", "th"}

\* every hundredth from 0.50 to 1.00
RawConfidences == {5000 + 100 * k : k \in 0..50}

InitDialect ==
    /\ expected_phoneme \in AdjustExpected
    /\ detected_phoneme \in AdjustDetected
    /\ confidence \in {<<c>> : c \in RawConfidences}
    /\ acoustic_score = <<>>
    /\ variation = 0
    /\ adjusted = <<>>
    /\ SafetyIdle
    /\ ScoreIdle
    /\ ExerciseIdle
    /\ ProgressIdle
    /\ PipelineIdle
    /\ FeedbackIdle

Adjust ==
    /\ adjusted = <<>>
    /\ adjusted' = <<adjust(expected_phoneme, detected_phoneme, confidence[1])>>
    /\ UNCHANGED <<expected_phoneme, detected_phoneme, acoustic_score,
                   variation, confidence, safetyVars, scoreVars,
                   exerciseVars, progressVars, pipelineVars, feedbackVars>>

NextDialect == Adjust

SpecDialect == InitDialect /\ [][NextDialect]_vars

(***************************************************************************)
(* C9: the dialect adjustment is monotonic: for a recognised variant pair  *)
(* and every confidence c in [0.50, 1.00] the adjusted confidence is at    *)
(* least c, and for an unrecognised pair it equals c.                      *)
(***************************************************************************)
C9_AdjustMonotonic ==
    adjusted # <<>> =>
        IF is_dialect_variation(expected_phoneme, detected_phoneme)
        THEN adjusted[1] >= confidence[1]
        ELSE adjusted[1] = confidence[1]

(***************************************************************************)
(* exercise_generator.  The texts are the source's, without their emoji.   *)
(***************************************************************************)
ARTICULATION_EXERCISES ==
    "r" :> <<
        [level |-> "isolation", repetitions |-> 5,
         exercise |-> "Say 'rrrrr' like a lion roaring! Hold it for 3 seconds."],
        [level |-> "syllable", repetitions |-> 3,
         exercise |-> "Practice: 'ray, ray, ray' - Say it slowly 3 times!"],
        [level |-> "word", repetitions |-> 2,
         exercise |-> "Try these words: 'red', 'run', 'rain' - Take your time!"] >> @@
    "s" :> <<
        [level |-> "isolation", repetitions |-> 5,
         exercise |-> "Make a snake sound: 'sssss' - Let the air flow!"],
        [level |-> "syllable", repetitions |-> 3,
         exercise |-> "Practice: 'see, see, see' - Smile and say it!"],
        [level |-> "word", repetitions |-> 2,
         exercise |-> "Try: 'sun', 'sit', 'sea' - One at a time!"] >> @@
    "th" :> <<
        [level |-> "isolation", repetitions |-> 5,
         exercise |-> "Stick your tongue out gently and say 'thhhh'!"],
        [level |-> "syllable", repetitions |-> 3,
         exercise |-> "Practice: 'tha, tha, tha' - Tongue peeks out!"],
        [level |-> "word", repetitions |-> 2,
         exercise |-> "Try: 'think', 'thank', 'three' - Go slow!"] >> @@
    "l" :> <<
        [level |-> "isolation", repetitions |-> 5,
         exercise |-> "Touch the roof of your mouth and say 'llll'!"],
        [level |-> "syllable", repetitions |-> 3,
         exercise |-> "Practice: 'la, la, la' - Tongue up high!"],
        [level |-> "word", repetitions |-> 2,
         exercise |-> "Try: 'like', 'let', 'look' - Nice and slow!"] >> @@
    "f" :> <<
        [level |-> "isolation", repetitions |-> 5,
         exercise |-> "Gently bite your lip and blow: 'ffff'!"],
        [level |-> "syllable", repetitions |-> 3,
         exercise |-> "Practice: 'fay, fay, fay' - Feel the air!"],
        [level |-> "word", repetitions |-> 2,
         exercise |-> "Try: 'fun', 'find', 'fall' - Take your time!"] >>

BREATHING_EXERCISES == <<
    "Take a deep breath in... and blow it out slowly like a candle!",
    "Breathe in through your nose, out through your mouth. Nice and easy!",
    "Pretend to blow bubbles - take a big breath and blow gently!" >>

COORDINATION_EXERCISES == <<
    "Open your mouth wide like a lion, then close it. Do this 3 times!",
    "Stick your tongue out, then pull it back in. Try it 5 times!",
    "Smile big, then make a fish face. Back and forth 3 times!" >>

\* [p for p in phoneme_scores if p["confidence"] < 0.75]
RECURSIVE NeedsPractice(_)
NeedsPractice(scores) ==
    IF scores = <<>> THEN <<>>
    ELSE IF Head(scores).confidence < 7500
         THEN <<Head(scores)>> \o NeedsPractice(Tail(scores))
         ELSE NeedsPractice(Tail(scores))

\* list.sort(key=lambda x: x["confidence"]): ascending and stable
RECURSIVE InsertByConfidence(_, _)
InsertByConfidence(sorted, p) ==
    IF sorted = <<>> THEN <<p>>
    ELSE IF Head(sorted).confidence <= p.confidence
         THEN <<Head(sorted)>> \o InsertByConfidence(Tail(sorted), p)
         ELSE <<p>> \o sorted

RECURSIVE SortByConfidence(_)
SortByConfidence(scores) ==
    IF scores = <<>> THEN <<>>
    ELSE InsertByConfidence(SortByConfidence(SubSeq(scores, 1, Len(scores) - 1)),
                            scores[Len(scores)])

\* the drills of one phoneme: isolation, then syllable, then word level
PhonemeDrills(phoneme) ==
    IF phoneme \in DOMAIN ARTICULATION_EXERCISES
    THEN [k \in 1..Len(ARTICULATION_EXERCISES[phoneme]) |->
            LET ex == ARTICULATION_EXERCISES[phoneme][k] IN
            [type |-> "articulation",
             phoneme |-> phoneme,
             level |-> ex.level,
             title |-> "Practice the '" \o phoneme \o "' sound",
             instruction |-> ex.exercise,
             repetitions |-> ex.repetitions]]
    ELSE <<>>

\* the loop `for p in needs_practice[:3]`
RECURSIVE DrillsFor(_)
DrillsFor(focus) ==
    IF focus = <<>> THEN <<>>
    ELSE PhonemeDrills(Head(focus).phoneme) \o DrillsFor(Tail(focus))

Celebration == <<
    [type |-> "celebration", title |-> "You're Amazing!",
     instruction |-> "All your sounds are clear! Try a harder word next level!"],
    [type |-> "challenge", title |-> "Ready for More?",
     instruction |-> "Try saying your word in a silly sentence!"] >>

\* generate_exercises without the warm-up and the coordination exercise
generate_exercises_NoFillers(scores, warmup, coordination) ==
    LET needs_practice == SortByConfidence(NeedsPractice(scores))
    IN  IF needs_practice = <<>> THEN Celebration
        ELSE DrillsFor(SubSeq(needs_practice, 1, Min(3, Len(needs_practice))))

\* warmup and coordination are the indexes random.choice picks
generate_exercises(scores, warmup, coordination) ==
    LET needs_practice == SortByConfidence(NeedsPractice(scores))
        all == <<[type |-> "warmup", title |-> "Let's Warm Up!",
                  instruction |-> BREATHING_EXERCISES[warmup]]>>
               \o DrillsFor(SubSeq(needs_practice, 1, Min(3, Len(needs_practice))))
               \o <<[type |-> "coordination", title |-> "Mouth Movement Practice!",
                     instruction |-> COORDINATION_EXERCISES[coordination]]>>
    IN  IF needs_practice = <<>> THEN Celebration ELSE all

(***************************************************************************)
(* Specification SpecExercises: generate_exercises on a list of phoneme    *)
(* scores.                                                                 *)
(***************************************************************************)
\* the longest list of phoneme scores
MaxScores == 4

\* scores below, just below and at the 0.75 threshold and above it, for
\* phonemes with and without ("uh", "unk") an entry in the exercise table
ScoreItems == {
    [phoneme |-> "s",   expected |-> "s",   confidence |-> 5500],
    [phoneme |-> "r",   expected |-> "r",   confidence |-> 7400],
    [phoneme |-> "unk", expected |-> "unk", confidence |-> 6000],
    [phoneme |-> "uh",  expected |-> "uh",  confidence |-> 7500],
    [phoneme |-> "th",  expected |-> "th",  confidence |-> 9000],
    [phoneme |-> "l",   expected |-> "l",   confidence |-> 5500] }

ScoreLists == UNION {[1..n -> ScoreItems] : n \in 0..MaxScores}

InitExercises ==
    /\ phoneme_scores \in ScoreLists
    /\ exercises = <<>>
    /\ POCKETSPHINX_AVAILABLE = FALSE
    /\ decoder = FALSE
    /\ target_word = ""
    /\ decoding = [outcome |-> "none", segments |-> <<>>]
    /\ audio_quality = <<>>
    /\ scored = FALSE
    /\ SafetyIdle
    /\ ConfidenceIdle
    /\ ProgressIdle
    /\ PipelineIdle
    /\ FeedbackIdle

GenerateExercises ==
    /\ exercises = <<>>
    /\ \E warmup \in 1..Len(BREATHING_EXERCISES),
          coordination \in 1..Len(COORDINATION_EXERCISES) :
          exercises' = <<generate_exercises(phoneme_scores, warmup, coordination)>>
    /\ UNCHANGED <<safetyVars, confidenceVars, scoreVars, progressVars,
                   pipelineVars, feedbackVars>>

NextExercises == GenerateExercises

SpecExercises == InitExercises /\ [][NextExercises]_vars

(***************************************************************************)
(* C10: generate_exercises never returns an empty list, whatever the       *)
(* scores: none at all, none below 0.75, or low ones with no entry in the  *)
(* exercise table.                                                         *)
(***************************************************************************)
C10_ExercisesNeverEmpty ==
    exercises # <<>> => Len(exercises[1]) >= 1

\* the low-confidence phonemes all lack an entry in the exercise table
C10_Witness ==
    /\ exercises # <<>>
    /\ phoneme_scores # <<>>
    /\ \A i \in 1..Len(phoneme_scores) :
          /\ phoneme_scores[i].confidence < 7500
          /\ phoneme_scores[i].phoneme \notin DOMAIN ARTICULATION_EXERCISES
    /\ Len(exercises[1]) = 2

(***************************************************************************)
(* speech_analysis: the progress tracker.                                  *)
(*                                                                         *)
(* A Python object is a record [class, fields]: a dict answers .get and    *)
(* has no attributes, a ProgressData (schemas.py) has its six attributes   *)
(* and no .get.  A call that may raise returns [ok |-> TRUE, value |-> v]  *)
(* or [ok |-> FALSE, error |-> the exception].                             *)
(***************************************************************************)
HIGH_CONFIDENCE_THRESHOLD == 7500

PyDict(fields) == [class |-> "dict", fields |-> fields]

\* a record that also keeps what the scorer detected
ProgressData_WithDetected(session_date, word_practiced, overall_score, phonemes_improved, phonemes_need_practice, session_duration_seconds) ==
    [class |-> "ProgressData",
     fields |-> [session_date |-> session_date,
                 word_practiced |-> word_practiced,
                 overall_score |-> overall_score,
                 phonemes_improved |-> phonemes_improved,
                 phonemes_need_practice |-> phonemes_need_practice,
                 session_duration_seconds |-> session_duration_seconds,
                 detected |-> phonemes_need_practice]]

\* models/schemas.py, class ProgressData: the fields of the object
ProgressData(session_date, word_practiced, overall_score, phonemes_improved, phonemes_need_practice, session_duration_seconds) ==
    [class |-> "ProgressData",
     fields |-> [session_date |-> session_date,
                 word_practiced |-> word_practiced,
                 overall_score |-> overall_score,
                 phonemes_improved |-> phonemes_improved,
                 phonemes_need_practice |-> phonemes_need_practice,
                 session_duration_seconds |-> session_duration_seconds]]

Returns(v) == [ok |-> TRUE, value |-> v]

Raises(e) == [ok |-> FALSE, error |-> e]

\* get_previous_scores without its test of the word
get_previous_scores_AnyWord(db, user_id, word) ==
    IF user_id \notin DOMAIN db THEN <<>> ELSE db[user_id]

\* the store only ever holds ProgressData objects (analyze_speech is the one
\* writer), so p.word_practiced is always there
get_previous_scores(db, user_id, word) ==
    IF user_id \notin DOMAIN db THEN <<>>
    ELSE LET SameWord(p) == p.fields.word_practiced = word
         IN  SelectSeq(db[user_id], SameWord)

\* prev.get("phoneme_scores", []) needs prev to be a dict
HasGet(prev) == prev.class = "dict"

PhonemeScoresOf(prev) ==
    IF "phoneme_scores" \in DOMAIN prev.fields
    THEN prev.fields.phoneme_scores
    ELSE <<>>

\* the loop that fills phoneme_history: every historical confidence of every
\* phoneme, over all previous entries, in order
RECURSIVE PhonemeHistory(_)
PhonemeHistory(previous) ==
    IF previous = <<>> THEN <<>>
    ELSE PhonemeScoresOf(Head(previous)) \o PhonemeHistory(Tail(previous))

RECURSIVE SumConfidence(_)
SumConfidence(scores) ==
    IF scores = <<>> THEN 0
    ELSE Head(scores).confidence + SumConfidence(Tail(scores))

\* phoneme_avg[phoneme] = sum(scores) / len(scores), kept as the pair
\* <<sum, len>> so that the mean is exact
PhonemeAvg(previous) ==
    LET history == PhonemeHistory(previous)
        phonemes == {history[i].phoneme : i \in 1..Len(history)}
    IN  [ph \in phonemes |->
            LET Mine(p) == p.phoneme = ph
                mine == SelectSeq(history, Mine)
            IN  <<SumConfidence(mine), Len(mine)>>]

\* current_conf > prev_avg + 0.05
ImprovedOver(current_conf, avg) ==
    current_conf * avg[2] > avg[1] + 500 * avg[2]

PhonemeNames(scores) == [i \in 1..Len(scores) |-> scores[i].phoneme]

calculate_progress(current_scores, previous) ==
    LET Low(p) == p.confidence < HIGH_CONFIDENCE_THRESHOLD IN
    IF previous = <<>>
    THEN Returns([is_first_attempt |-> TRUE,
                  improved_phonemes |-> <<>>,
                  needs_more_practice |->
                      PhonemeNames(SelectSeq(current_scores, Low))])
    ELSE IF \E i \in 1..Len(previous) : ~HasGet(previous[i])
    THEN Raises("AttributeError")
    ELSE LET phoneme_avg == PhonemeAvg(previous)
             Improved(p) ==
                 /\ p.phoneme \in DOMAIN phoneme_avg
                 /\ ImprovedOver(p.confidence, phoneme_avg[p.phoneme])
         IN  Returns([is_first_attempt |-> FALSE,
                      improved_phonemes |->
                          PhonemeNames(SelectSeq(current_scores, Improved)),
                      needs_more_practice |->
                          PhonemeNames(SelectSeq(current_scores, Low)),
                      previous_average |-> phoneme_avg])

(***************************************************************************)
(* Specification SpecProgress: one call of calculate_progress, on the      *)
(* scores of a session and a history of earlier sessions.                  *)
(***************************************************************************)
Score(phoneme, conf) ==
    [phoneme |-> phoneme, expected |-> phoneme, confidence |-> conf]

\* the scores of the current session
CurrentScores == {
    <<Score("s", 7500)>>,
    <<Score("s", 7490)>>,
    <<Score("s", 7600)>>,
    <<Score("s", 7000), Score("ee", 7500)>>,
    <<Score("s", 8200), Score("ee", 5500)>>,
    <<Score("n", 6000), Score("s", 7500)>>,
    <<Score("s", 5500), Score("ee", 6000)>> }

\* an earlier session, as calculate_progress reads it (a dict with the
\* session's phoneme scores, or without them), and as analyze_speech stores
\* it (a ProgressData)
HistoryOf(scores) == PyDict([phoneme_scores |-> scores])

HistoryEntries == {
    HistoryOf(<<Score("s", 7000)>>),
    HistoryOf(<<Score("s", 6500), Score("ee", 7000)>>),
    HistoryOf(<<Score("s", 7500), Score("ee", 5500)>>),
    HistoryOf(<<Score("s", 5500)>>),
    HistoryOf(<<>>),
    PyDict([word_practiced |-> "see"]),
    ProgressData(1, "see", 70, <<>>, <<"s">>, 0) }

\* The histories: every one of up to two sessions, and some longer ones.
\* Python compares floats, current_conf > sum(scores) / len(scores) + 0.05;
\* on these histories and CurrentScores the floating-point comparison and
\* the exact one agree.  (They need not: the float mean of 0.7, 0.7, 0.7 is
\* below 0.7, so that 0.75 counts as improved over it.)
Histories ==
    UNION {[1..n -> HistoryEntries] : n \in 0..2}
    \cup { <<HistoryOf(<<Score("s", 5500)>>),
             HistoryOf(<<Score("s", 6500), Score("ee", 7000)>>),
             HistoryOf(<<Score("s", 7500), Score("ee", 5500)>>)>>,
           <<HistoryOf(<<Score("s", 5500)>>),
             HistoryOf(<<Score("s", 5500)>>),
             HistoryOf(<<Score("s", 5500)>>)>>,
           <<HistoryOf(<<Score("s", 7000)>>),
             HistoryOf(<<>>),
             PyDict([word_practiced |-> "see"])>>,
           <<HistoryOf(<<Score("s", 5500)>>),
             HistoryOf(<<Score("s", 6500), Score("ee", 7000)>>),
             HistoryOf(<<Score("s", 7500), Score("ee", 5500)>>),
             HistoryOf(<<Score("s", 7000)>>)>>,
           <<HistoryOf(<<Score("s", 7500), Score("ee", 5500)>>),
             HistoryOf(<<Score("s", 7500), Score("ee", 5500)>>),
             HistoryOf(<<Score("s", 7500), Score("ee", 5500)>>),
             HistoryOf(<<Score("s", 7500), Score("ee", 5500)>>)>>,
           <<HistoryOf(<<Score("s", 7000)>>),
             HistoryOf(<<Score("s", 6500), Score("ee", 7000)>>),
             ProgressData(1, "see", 70, <<>>, <<"s">>, 0)>> }

InitProgress ==
    /\ phoneme_scores \in CurrentScores
    /\ previous_scores \in Histories
    /\ progress_info = <<>>
    /\ POCKETSPHINX_AVAILABLE = FALSE
    /\ decoder = FALSE
    /\ target_word = ""
    /\ decoding = [outcome |-> "none", segments |-> <<>>]
    /\ audio_quality = <<>>
    /\ scored = FALSE
    /\ SafetyIdle
    /\ ConfidenceIdle
    /\ ExerciseIdle
    /\ PipelineIdle
    /\ FeedbackIdle

CalculateProgress ==
    /\ progress_info = <<>>
    /\ progress_info' = <<calculate_progress(phoneme_scores, previous_scores)>>
    /\ UNCHANGED <<previous_scores, safetyVars, confidenceVars, scoreVars,
                   exerciseVars, pipelineVars, feedbackVars>>

NextProgress == CalculateProgress

SpecProgress == InitProgress /\ [][NextProgress]_vars

(***************************************************************************)
(* C5: in calculate_progress a phoneme of the current session that has a   *)
(* baseline (the mean of its historical confidences) is reported improved  *)
(* exactly when its confidence minus the baseline is at least 0.05.        *)
(***************************************************************************)
C5_ImprovedIffAtLeastFive ==
    (progress_info # <<>> /\ progress_info[1].ok
        /\ ~progress_info[1].value.is_first_attempt) =>
    LET info == progress_info[1].value
        avg == info.previous_average
    IN  \A i \in 1..Len(phoneme_scores) :
            LET p == phoneme_scores[i] IN
            p.phoneme \in DOMAIN avg =>
                ((p.phoneme \in Range(info.improved_phonemes))
                    <=> (p.confidence * avg[p.phoneme][2]
                            >= avg[p.phoneme][1] + 500 * avg[p.phoneme][2]))

(***************************************************************************)
(* ethics: the confidence tiers; feedback_generator.  A random.choice(list)*)
(* takes the draw it makes as a parameter `pick`, a natural number: it     *)
(* returns list[pick % len(list)].                                         *)
(***************************************************************************)
\* corrective feedback from 0.70 on
should_give_corrective_feedback_From70(conf) == conf >= 7000

should_give_corrective_feedback(conf) == conf >= HIGH_CONFIDENCE_THRESHOLD

\* the tiers with "good" starting at 0.70
get_encouragement_level_GoodFrom70(conf) ==
    IF conf >= 8500 THEN "excellent"
    ELSE IF conf >= 7000 THEN "good"
    ELSE IF conf >= 6000 THEN "try_again"
    ELSE "neutral"

get_encouragement_level(conf) ==
    IF conf >= 8500 THEN "excellent"
    ELSE IF conf >= 7500 THEN "good"
    ELSE IF conf >= 6000 THEN "try_again"
    ELSE "neutral"

Choice(list, pick) == list[(pick % Len(list)) + 1]

\* phoneme = "" stands for phoneme=None as well: the code only tests
\* `if phoneme`, which is false for both
get_encouragement_message(conf, phoneme, pick) ==
    LET level == get_encouragement_level(conf) IN
    IF level = "excellent"
    THEN IF phoneme # ""
         THEN "Fantastic! Your '" \o phoneme \o "' sound is so clear!"
         ELSE Choice(<<"Amazing work! You're a superstar!",
                       "Perfect! You nailed it!",
                       "Wow! That was excellent!">>, pick)
    ELSE IF level = "good"
    THEN IF phoneme # ""
         THEN "Great job on the '" \o phoneme
                  \o "' sound! You're doing awesome!"
         ELSE Choice(<<"Really good work! Keep it up!",
                       "You're doing so well! Proud of you!",
                       "Nice job! You're making progress!">>, pick)
    ELSE IF level = "try_again" /\ phoneme # ""
    THEN IF phoneme \in DOMAIN PRACTICE_ENCOURAGEMENT \ {"default"}
         THEN PRACTICE_ENCOURAGEMENT[phoneme]
         ELSE PRACTICE_ENCOURAGEMENT["default"]
    ELSE Choice(GENERAL_ENCOURAGEMENT \o ADDITIONAL_ENCOURAGEMENT, pick)

\* feedback_item of one phoneme, a Python dict; tip_pick and enc_pick are
\* the draws of the two calls of get_encouragement_message
FeedbackItem(p, tip_pick, enc_pick) ==
    LET phoneme == p.phoneme
        conf == p.confidence
        corrective == should_give_corrective_feedback(conf)
        has_tips == phoneme \in DOMAIN ARTICULATION_TIPS
        tip == IF corrective
               THEN IF has_tips THEN ARTICULATION_TIPS[phoneme].tip
                    ELSE "Let's practice this sound together!"
               ELSE get_encouragement_message(conf, "", tip_pick)
        visual_cue == IF corrective
                      THEN IF has_tips THEN ARTICULATION_TIPS[phoneme].visual_cue
                           ELSE "direct hit"
                      ELSE "sparkles"
        mouth_position == IF corrective /\ has_tips
                          THEN ARTICULATION_TIPS[phoneme].mouth_position
                          ELSE "neutral"
        item == [phoneme |-> Str(phoneme),
                 expected |-> Str(p.expected),
                 confidence |-> Other(Round2(conf, 1)),
                 tip |-> Str(tip),
                 visual_cue |-> Str(visual_cue),
                 mouth_position |-> Str(mouth_position),
                 needs_practice |-> Other(conf < 7500),
                 encouragement |->
                     Str(get_encouragement_message(conf, phoneme, enc_pick)),
                 show_specific_guidance |-> Other(corrective)]
    IN  IF corrective /\ has_tips
        THEN item @@ [explanation |->
                          Str(ARTICULATION_TIPS[phoneme].explanation)]
        ELSE item

\* picks[i] = <<tip_pick, enc_pick>> for the i-th phoneme; every item goes
\* through ensure_child_safety (line 198)
generate_feedback(scores, picks) ==
    [i \in 1..Len(scores) |->
        ensure_child_safety(FeedbackItem(scores[i], picks[i][1], picks[i][2]))]

generate_overall_encouragement(overall_score) ==
    IF overall_score >= 85
    THEN "Wow! You're a superstar! Your voice is getting so strong!"
    ELSE IF overall_score >= 75
    THEN "Great work today! You're making amazing progress!"
    ELSE IF overall_score >= 60
    THEN "Nice job practicing! Every try makes you better!"
    ELSE "I love seeing you try! You're learning so much! Keep going!"

\* "', '".join(list)
RECURSIVE Join(_)
Join(list) ==
    IF list = <<>> THEN ""
    ELSE IF Len(list) = 1 THEN list[1]
    ELSE list[1] \o "', '" \o Join(Tail(list))

get_celebration_message(improved_phonemes) ==
    IF improved_phonemes = <<>>
    THEN "Keep practicing-you're doing great!"
    ELSE IF Len(improved_phonemes) = 1
    THEN "Your '" \o improved_phonemes[1] \o "' sound got even better! Amazing!"
    ELSE IF Len(improved_phonemes) = 2
    THEN "Your '" \o improved_phonemes[1] \o "' and '" \o improved_phonemes[2]
             \o "' sounds improved! Wow!"
    ELSE "Your '"
             \o Join(SubSeq(improved_phonemes, 1, Len(improved_phonemes) - 1))
             \o "' and '" \o improved_phonemes[Len(improved_phonemes)]
             \o "' sounds improved! You're on fire!"

(***************************************************************************)
(* speech_analysis.analyze_speech, the pipeline.                           *)
(*                                                                         *)
(* A call runs up to its one await (audio_file.read(), line 120), where    *)
(* other calls may run, and then to its end without another await.         *)
(* datetime.now() is the logical clock; an audio file is what the pipeline *)
(* can observe of it: whether librosa.load accepts it, what the decoder    *)
(* makes of it, and the quality of its features.                           *)
(***************************************************************************)
break_into_syllables(word) ==
    LET syllable_map == [butterfly |-> <<"but", "ter", "fly">>,
                         rainbow |-> <<"rain", "bow">>,
                         happy |-> <<"hap", "py">>,
                         jumping |-> <<"jump", "ing">>,
                         sunshine |-> <<"sun", "shine">>]
    IN  IF Lower(word) \in DOMAIN syllable_map
        THEN syllable_map[Lower(word)]
        ELSE <<word>>

\* int(np.mean([p["confidence"] for p in phoneme_scores]) * 100): int()
\* truncates.  (np.mean and the product are floating-point; on the score
\* lists of Spec the float result and the exact one agree.)
OverallScore(scores) == SumConfidence(scores) \div (100 * Len(scores))

\* user_progress_db[user_id] = [progress_data]: the list is created anew
AppendProgress_LostUpdate(db, user_id, progress_data) ==
    [u \in DOMAIN db \cup {user_id} |->
        IF u = user_id THEN <<progress_data>> ELSE db[u]]

\* user_progress_db[user_id].insert(0, progress_data)
AppendProgress_Prepend(db, user_id, progress_data) ==
    IF user_id \in DOMAIN db
    THEN [db EXCEPT ![user_id] = <<progress_data>> \o @]
    ELSE db @@ (user_id :> <<progress_data>>)

\* user_progress_db[user_id].append(progress_data), after creating the list
\* of a user who has none
AppendProgress(db, user_id, progress_data) ==
    IF user_id \in DOMAIN db
    THEN [db EXCEPT ![user_id] = Append(@, progress_data)]
    ELSE db @@ (user_id :> <<progress_data>>)

\* The draws random.choice makes during one analysis are a function of the
\* generator's state `rnd` when the analysis resumes: two for each phoneme's
\* feedback, then the warm-up and the coordination exercise.
FeedbackPicks(n, rnd) == [i \in 1..n |-> <<rnd + 2 * i - 2, rnd + 2 * i - 1>>]

\* an analysis that saves its record first and then fails
AnalyzeScores_SaveFirst(db, req, now, scores, rnd) ==
    [db |-> IF req.include_progress
            THEN AppendProgress(db, req.user_id,
                     ProgressData(now, req.target_word, OverallScore(scores),
                                  <<>>, <<>>, now - req.start_time))
            ELSE db,
     outcome |-> Raises("Exception"),
     progress_info |-> <<>>,
     safety_checked |-> {}]

\* Lines 122-193, given the scores score_pronunciation returned (line 127).
\* The result: the store afterwards, what the call returned or raised, the
\* progress_info if it got that far, and which parts of the result went
\* through ensure_child_safety (only generate_feedback calls it).
AnalyzeScores(db, req, now, scores, rnd) ==
    LET user_id == req.user_id
        word == req.target_word
        previous == get_previous_scores(db, user_id, word)
        info == calculate_progress(scores, previous)
    IN
    IF req.include_progress /\ ~info.ok
    THEN [db |-> db, outcome |-> Raises(info.error),
          progress_info |-> <<info>>, safety_checked |-> {}]
    ELSE
    LET improved == info.value.improved_phonemes
        celebration == IF req.include_progress /\ improved # <<>>
                       THEN <<get_celebration_message(improved)>>
                       ELSE <<>>
        progress_data ==
            IF req.include_progress
            THEN <<ProgressData(now, word, OverallScore(scores), improved,
                                info.value.needs_more_practice,
                                now - req.start_time)>>
            ELSE <<>>
        n == Len(scores)
        Low(p) == p.confidence < 7500
    IN  [db |-> IF req.include_progress
                THEN AppendProgress(db, user_id, progress_data[1])
                ELSE db,
         outcome |-> Returns(
            [word |-> word,
             overall_score |-> OverallScore(scores),
             phoneme_feedback |-> generate_feedback(scores, FeedbackPicks(n, rnd)),
             encouragement |-> generate_overall_encouragement(OverallScore(scores)),
             exercises |-> generate_exercises(scores,
                               ((rnd + 2 * n) % Len(BREATHING_EXERCISES)) + 1,
                               ((rnd + 2 * n + 1) % Len(COORDINATION_EXERCISES)) + 1),
             syllables |-> break_into_syllables(word),
             highlighted_sounds |-> PhonemeNames(SelectSeq(scores, Low)),
             progress |-> progress_data,
             celebration |-> celebration]),
         progress_info |-> IF req.include_progress THEN <<info>> ELSE <<>>,
         safety_checked |-> {"phoneme_feedback"}]

(***************************************************************************)
(* get_user_progress_summary.  list(set(...)) has no specified order: the  *)
(* two lists built that way are given as sets.                             *)
(***************************************************************************)
\* sessions[-n:]
LastSessions(sessions, n) ==
    SubSeq(sessions, Max(1, Len(sessions) - n + 1), Len(sessions))

RECURSIVE SumOverall(_)
SumOverall(sessions) ==
    IF sessions = <<>> THEN 0
    ELSE Head(sessions).fields.overall_score + SumOverall(Tail(sessions))

get_user_progress_summary(db, user_id) ==
    IF user_id \notin DOMAIN db
    THEN [total_sessions |-> 0, progress |-> <<>>]
    ELSE
    LET sessions == db[user_id]
        Improved(s) == s.fields.phonemes_improved # <<>>
        recent == SelectSeq(LastSessions(sessions, 5), Improved)
        last3 == LastSessions(sessions, 3)
    IN  [total_sessions |-> Len(sessions),
         words_practiced |->
             {sessions[i].fields.word_practiced : i \in 1..Len(sessions)},
         average_score |-> SumOverall(sessions) \div Len(sessions),
         recent_improvements |->
             [i \in 1..Len(recent) |-> recent[i].fields.phonemes_improved],
         still_practicing |->
             UNION {Range(last3[i].fields.phonemes_need_practice) :
                        i \in 1..Len(last3)}]

(***************************************************************************)
(* Specification Spec: calls of analyze_speech, interleaved at their       *)
(* await, on one store.                                                    *)
(***************************************************************************)
\* how many calls of analyze_speech are made
MaxRequests == 2

\* the states of the random generator an analysis may resume in: 0..MaxRandom
MaxRandom == 1

Users == {"demo_user", "ios_user"}

Words == {"see", "xyzzy"}

\* the audio files: one librosa.load rejects, one the decoder hears nothing
\* of, and one in which it hears an S
AudioFiles == {
    [load |-> FALSE,
     decoding |-> [outcome |-> "raises", segments |-> <<>>],
     quality |-> <<>>],
    [load |-> TRUE,
     decoding |-> [outcome |-> "segments", segments |-> <<>>],
     quality |-> <<60>>],
    [load |-> TRUE,
     decoding |-> [outcome |-> "segments",
                   segments |-> <<[word |-> "S", prob |-> -1550]>>],
     quality |-> <<100>>] }

\* which of JitterDraws / BaseDraws np.random draws in the pipeline
\* (SpecScore goes through all of them)
PipelineDraws == {2}

\* the scorer either has its decoder or has none
Init ==
    /\ POCKETSPHINX_AVAILABLE \in BOOLEAN
    /\ decoder = POCKETSPHINX_AVAILABLE
    /\ target_word = ""
    /\ decoding = [outcome |-> "none", segments |-> <<>>]
    /\ audio_quality = <<>>
    /\ phoneme_scores = <<>>
    /\ scored = FALSE
    /\ PipelineIdle
    /\ FeedbackIdle
    /\ SafetyIdle
    /\ ConfidenceIdle
    /\ ExerciseIdle
    /\ ProgressIdle

\* analyze_speech is called and runs up to `await audio_file.read()`.
\* audio_bytes and y are the two locals that hold audio: "unbound" before
\* their assignment, "bound" while they refer to the buffer, "deleted"
\* after `del` (lines 178-179).
Call(user_id, word, include_progress, audio_file) ==
    /\ Len(requests) < MaxRequests
    /\ requests' = Append(requests,
                          [user_id |-> user_id,
                           target_word |-> word,
                           include_progress |-> include_progress,
                           audio_file |-> audio_file,
                           start_time |-> clock,
                           pc |-> "reading",
                           audio_bytes |-> "unbound",
                           y |-> "unbound",
                           phoneme_scores |-> <<>>])
    /\ clock' = clock + 1
    /\ UNCHANGED <<user_progress_db, response, safety_checked, summary,
                   safetyVars, confidenceVars, scoreVars, exerciseVars,
                   progressVars, feedbackVars>>

\* the call resumes after the await and runs to its return or its raise
Resume(r) ==
    /\ requests[r].pc = "reading"
    /\ LET req == requests[r]
           n == Len(ExpectedPhonemes(req.target_word, <<"UNK">>))
       IN
       \E d \in [1..n -> PipelineDraws], rnd \in 0..MaxRandom :
          LET scores == score_pronunciation(
                            POCKETSPHINX_AVAILABLE, decoder,
                            req.audio_file.decoding, req.audio_file.quality,
                            req.target_word,
                            [i \in 1..n |-> JitterDraws[d[i]]],
                            [i \in 1..n |-> BaseDraws[d[i]]])
              done == IF req.audio_file.load
                      THEN AnalyzeScores(user_progress_db, req, clock, scores, rnd)
                      ELSE [db |-> user_progress_db,
                            outcome |-> Raises("LoadError"),
                            progress_info |-> <<>>,
                            safety_checked |-> {}]
          IN  /\ user_progress_db' = done.db
              /\ response' = <<[request |-> r,
                                outcome |-> done.outcome,
                                progress_info |-> done.progress_info,
                                db_before |-> user_progress_db]>>
              /\ safety_checked' = done.safety_checked
              /\ requests' = [requests EXCEPT
                     ![r].pc = IF done.outcome.ok THEN "returned" ELSE "raised",
                     ![r].audio_bytes =
                         IF done.outcome.ok THEN "deleted" ELSE "bound",
                     ![r].y =
                         IF done.outcome.ok THEN "deleted"
                         ELSE IF req.audio_file.load THEN "bound"
                         ELSE "unbound",
                     ![r].phoneme_scores =
                         IF req.audio_file.load THEN scores ELSE <<>>]
    /\ clock' = clock + 1
    /\ UNCHANGED <<summary, safetyVars, confidenceVars, scoreVars,
                   exerciseVars, progressVars, feedbackVars>>

\* GET /progress/{user_id}: get_user_progress_summary reads the store
GetUserProgressSummary(user_id) ==
    /\ summary' = <<get_user_progress_summary(user_progress_db, user_id)>>
    /\ UNCHANGED <<user_progress_db, requests, clock, response,
                   safety_checked, safetyVars, confidenceVars, scoreVars,
                   exerciseVars, progressVars, feedbackVars>>

Next ==
    \/ \E user_id \in Users, word \in Words, include_progress \in BOOLEAN,
          audio_file \in AudioFiles :
          Call(user_id, word, include_progress, audio_file)
    \/ \E r \in DOMAIN requests : Resume(r)
    \/ \E user_id \in Users : GetUserProgressSummary(user_id)

Spec == Init /\ [][Next]_vars

(***************************************************************************)
(* C3: every text of the result analyze_speech returns (the phoneme        *)
(* feedback, the overall encouragement, the celebration message, the       *)
(* exercises) has passed through ensure_child_safety before it is          *)
(* returned.                                                               *)
(***************************************************************************)
C3_AllTextPassedTheFilter ==
    (response # <<>> /\ response[1].outcome.ok) =>
        LET result == response[1].outcome.value
            texts == {"phoneme_feedback", "encouragement", "exercises"}
                     \cup (IF result.celebration # <<>> THEN {"celebration"}
                           ELSE {})
        IN  texts \subseteq safety_checked

(***************************************************************************)
(* C6: for the same user and word, when the first tracked session scored   *)
(* s at 0.55 and the second tracked session scores s at 0.82, the second   *)
(* session returns a result whose record lists s, and only s, as improved  *)
(* and whose celebration message names 's'.                                *)
(***************************************************************************)
ConfidenceOf(scores, phoneme) ==
    {scores[i].confidence :
        i \in {j \in 1..Len(scores) : scores[j].phoneme = phoneme}}

\* the records the store held for this user and word
StoredFor(db, user_id, word) ==
    IF user_id \in DOMAIN db
    THEN {i \in 1..Len(db[user_id]) :
             db[user_id][i].fields.word_practiced = word}
    ELSE {}

C6_SecondSessionCelebrates ==
    response # <<>> =>
        LET second == requests[response[1].request] IN
        \A r \in DOMAIN requests :
            LET first == requests[r] IN
            ( /\ r # response[1].request
              /\ first.pc = "returned"
              /\ first.include_progress /\ second.include_progress
              /\ first.user_id = second.user_id
              /\ first.target_word = second.target_word
              /\ ConfidenceOf(first.phoneme_scores, "s") = {5500}
              /\ ConfidenceOf(second.phoneme_scores, "s") = {8200}
              /\ Cardinality(StoredFor(response[1].db_before, second.user_id,
                                       second.target_word)) = 1 )
            => /\ response[1].outcome.ok
               /\ LET result == response[1].outcome.value IN
                  /\ result.progress # <<>>
                  /\ result.progress[1].fields.phonemes_improved = <<"s">>
                  /\ result.celebration # <<>>
                  /\ Contains(result.celebration[1], "'s'")

(***************************************************************************)
(* C7: the progress result says is_first_attempt exactly when the store    *)
(* held no record for the pair (user_id, target word) at the time of the   *)
(* analysis; records of other words and of other users do not count.       *)
(***************************************************************************)
C7_FirstAttemptIffNoHistory ==
    (response # <<>> /\ response[1].progress_info # <<>>) =>
        LET req == requests[response[1].request]
            info == response[1].progress_info[1]
        IN  (info.ok /\ info.value.is_first_attempt)
                <=> (StoredFor(response[1].db_before, req.user_id,
                               req.target_word) = {})

\* a first attempt at a word by a user whose log holds another word
C7_Witness ==
    /\ response # <<>>
    /\ response[1].progress_info # <<>>
    /\ response[1].progress_info[1].ok
    /\ response[1].progress_info[1].value.is_first_attempt
    /\ LET req == requests[response[1].request]
           db == response[1].db_before
       IN  /\ req.user_id \in DOMAIN db
           /\ db[req.user_id] # <<>>
           /\ StoredFor(db, req.user_id, req.target_word) = {}

(***************************************************************************)
(* C11: for a target word that is not in WORD_PHONEMES, score_pronunciation *)
(* returns (it does not raise) and what it returns is exactly one          *)
(* placeholder phoneme score, the mock score of "UNK", whether the scorer  *)
(* has a PocketSphinx decoder or not.                                      *)
(***************************************************************************)
IsPlaceholder(score) ==
    /\ score.phoneme = "unk"
    /\ score.expected = "unk"
    /\ score.detected = "UNK"

C11_UnknownWordOnePlaceholder ==
    (scored /\ Lower(target_word) \notin DOMAIN WORD_PHONEMES)
        => (Len(phoneme_scores) = 1 /\ IsPlaceholder(phoneme_scores[1]))

\* an unknown word scored with a decoder that did align segments: the
\* PocketSphinx result is the empty list and the mock placeholder is returned
C11_Witness ==
    /\ scored
    /\ target_word = "xyzzy"
    /\ POCKETSPHINX_AVAILABLE /\ decoder
    /\ decoding.outcome = "segments" /\ decoding.segments # <<>>
    /\ Len(phoneme_scores) = 1
    /\ IsPlaceholder(phoneme_scores[1])

(***************************************************************************)
(* C12: score_pronunciation always returns a non-empty list of scores and  *)
(* never an error; when pocketsphinx is not installed, when the decoder    *)
(* was not initialised, when decoding raises, when there is no hypothesis  *)
(* and when the PocketSphinx result is empty, the list it returns is the   *)
(* one of enhanced_mock_scoring.                                           *)
(***************************************************************************)
FallsBack ==
    \/ ~POCKETSPHINX_AVAILABLE
    \/ ~decoder
    \/ decoding.outcome \in {"raises", "no_hypothesis"}
    \/ ExpectedPhonemes(target_word, <<>>) = <<>>

IsMock(scores) == \A i \in 1..Len(scores) : "is_mock" \in DOMAIN scores[i]

C12_WitnessNoHypothesis ==
    /\ scored
    /\ decoding.outcome = "no_hypothesis"
    /\ phoneme_scores # <<>>
    /\ IsMock(phoneme_scores)

(***************************************************************************)
(* C13: when analyses with progress tracking run concurrently for the same *)
(* user, the user's log has exactly one record for each of them that has   *)
(* returned, in every interleaving: no append is lost.                     *)
(***************************************************************************)
LogOf(db, user_id) == IF user_id \in DOMAIN db THEN db[user_id] ELSE <<>>

TrackedReturned(user_id) ==
    {r \in DOMAIN requests : /\ requests[r].user_id = user_id
                             /\ requests[r].include_progress
                             /\ requests[r].pc = "returned"}

C13_OneRecordPerAnalysis ==
    \A user_id \in Users :
        Len(LogOf(user_progress_db, user_id))
            = Cardinality(TrackedReturned(user_id))

\* two tracked analyses of one user were both waiting for their audio at
\* the same time, the one called second resumed first, and both returned
C13_Witness ==
    /\ Len(requests) = 2
    /\ requests[1].user_id = requests[2].user_id
    /\ TrackedReturned(requests[1].user_id) = {1, 2}
    /\ requests[2].start_time = requests[1].start_time + 1
    /\ Len(user_progress_db[requests[1].user_id]) = 2
    /\ user_progress_db[requests[1].user_id][1].fields.word_practiced
           = requests[2].target_word
    /\ requests[1].target_word # requests[2].target_word

(***************************************************************************)
(* C14: persisting is all-or-nothing: the analysis that finished last      *)
(* changed the store only if it returned a result, a complete one, with    *)
(* progress tracking on, and then by appending the record of that result;  *)
(* if it raised, every user's log is as it was before.                     *)
(***************************************************************************)
ResultKeys ==
    {"word", "overall_score", "phoneme_feedback", "encouragement",
     "exercises", "syllables", "highlighted_sounds", "progress",
     "celebration"}

C14_AllOrNothing ==
    response # <<>> =>
        LET last == response[1]
            req == requests[last.request]
        IN  IF last.outcome.ok /\ req.include_progress
            THEN /\ DOMAIN last.outcome.value = ResultKeys
                 /\ last.outcome.value.phoneme_feedback # <<>>
                 /\ last.outcome.value.exercises # <<>>
                 /\ last.outcome.value.progress # <<>>
                 /\ user_progress_db
                        = AppendProgress(last.db_before, req.user_id,
                                         last.outcome.value.progress[1])
            ELSE user_progress_db = last.db_before

\* a tracked analysis raised (the second one of a user and word) when the
\* store already held a record, and the store is as it was
C14_Witness ==
    /\ response # <<>>
    /\ ~response[1].outcome.ok
    /\ requests[response[1].request].include_progress
    /\ requests[response[1].request].audio_file.load
    /\ response[1].db_before # [user_id \in {} |-> <<>>]
    /\ user_progress_db = response[1].db_before

(***************************************************************************)
(* C15: each user's progress log is append-only: in every step the log of  *)
(* every user before the step is a prefix of that user's log after it, and *)
(* a step of get_user_progress_summary leaves the store as it is.          *)
(***************************************************************************)
IsPrefix(s, t) == Len(s) <= Len(t) /\ SubSeq(t, 1, Len(s)) = s

AppendOnlyStep ==
    /\ \A user_id \in DOMAIN user_progress_db :
           /\ user_id \in DOMAIN user_progress_db'
           /\ IsPrefix(user_progress_db[user_id], user_progress_db'[user_id])
    /\ summary' # summary => user_progress_db' = user_progress_db

C15_AppendOnly == [][AppendOnlyStep]_vars

\* a log with a record got a second one, and the summary was read from it
C15_Witness ==
    /\ summary # <<>>
    /\ summary[1].total_sessions = 2
    /\ \E user_id \in DOMAIN user_progress_db :
           Len(user_progress_db[user_id]) = 2

(***************************************************************************)
(* C16: every record in a user's progress log has the date, the word, the  *)
(* overall score, the improved phonemes, the phonemes needing practice and *)
(* the session duration, and nothing else: no detected symbol, no raw      *)
(* score, no per-phoneme confidence, no audio.                             *)
(***************************************************************************)
ProgressFields ==
    {"session_date", "word_practiced", "overall_score", "phonemes_improved",
     "phonemes_need_practice", "session_duration_seconds"}

C16_RecordHasOnlyAbstractScores ==
    \A user_id \in DOMAIN user_progress_db :
        \A i \in 1..Len(user_progress_db[user_id]) :
            LET record == user_progress_db[user_id][i] IN
            /\ record.class = "ProgressData"
            /\ DOMAIN record.fields = ProgressFields
            /\ record.fields.overall_score \in 0..100
            /\ Range(record.fields.phonemes_improved)
                   \cup Range(record.fields.phonemes_need_practice)
                   \subseteq {CMU_TO_SIMPLE[cmu] : cmu \in DOMAIN CMU_TO_SIMPLE}
                              \cup {"unk"}

\* a record of a session in which the decoder heard a sound and a phoneme
\* needs practice
C16_Witness ==
    \E user_id \in DOMAIN user_progress_db :
        \E r \in TrackedReturned(user_id) :
            /\ requests[r].audio_file.decoding.segments # <<>>
            /\ "detected" \in DOMAIN requests[r].phoneme_scores[1]
            /\ user_progress_db[user_id][1].fields.phonemes_need_practice # <<>>

(***************************************************************************)
(* C17: on every exit path of analyze_speech, return and exception alike,  *)
(* the raw audio bytes (audio_bytes) and the decoded samples (y) have been *)
(* released when the function is left.                                     *)
(***************************************************************************)
C17_AudioReleasedOnExit ==
    \A r \in DOMAIN requests :
        requests[r].pc \in {"returned", "raised"} =>
            /\ requests[r].audio_bytes # "bound"
            /\ requests[r].y # "bound"

(***************************************************************************)
(* Specification SpecFeedback: generate_feedback on a list of phoneme      *)
(* scores.                                                                 *)
(***************************************************************************)
\* the longest list of phoneme scores given to generate_feedback
MaxFeedback == 2

\* random.choice draws one of the first MaxPick + 1 phrases of its list
MaxPick == 1

\* "s" has an entry in ARTICULATION_TIPS and in PRACTICE_ENCOURAGEMENT, "b"
\* in ARTICULATION_TIPS only, "ee" in neither
FeedbackPhonemes == {"s", "b", "ee"}

\* the floor and the top of the scorer's range, and both sides of the three
\* thresholds
FeedbackConfidences == {5000, 5900, 6000, 7400, 7500, 8400, 8500, 10000}

FeedbackScores ==
    {[phoneme |-> ph, expected |-> ph, confidence |-> c] :
        ph \in FeedbackPhonemes, c \in FeedbackConfidences}

InitFeedback ==
    /\ phoneme_scores \in UNION {[1..n -> FeedbackScores] : n \in 1..MaxFeedback}
    /\ phoneme_feedback = <<>>
    /\ encouragement_level = ""
    /\ corrective_feedback = <<>>
    /\ overall = <<>>
    /\ POCKETSPHINX_AVAILABLE = FALSE
    /\ decoder = FALSE
    /\ target_word = ""
    /\ decoding = [outcome |-> "none", segments |-> <<>>]
    /\ audio_quality = <<>>
    /\ scored = FALSE
    /\ SafetyIdle
    /\ ConfidenceIdle
    /\ ExerciseIdle
    /\ ProgressIdle
    /\ PipelineIdle

GenerateFeedback ==
    /\ phoneme_feedback = <<>>
    /\ \E picks \in [1..Len(phoneme_scores) -> (0..MaxPick) \X (0..MaxPick)] :
           phoneme_feedback' = <<generate_feedback(phoneme_scores, picks)>>
    /\ UNCHANGED <<encouragement_level, corrective_feedback, overall, safetyVars,
                   confidenceVars, scoreVars, exerciseVars, progressVars,
                   pipelineVars>>

NextFeedback == GenerateFeedback

SpecFeedback == InitFeedback /\ [][NextFeedback]_vars

(***************************************************************************)
(* C18: in every feedback item of generate_feedback, needs_practice is     *)
(* true exactly when the phoneme's confidence is below 0.75, and           *)
(* show_specific_guidance exactly when it is not; for a phoneme of the     *)
(* articulation table the item carries the table's tip, visual cue and     *)
(* mouth position exactly when the confidence is at least 0.75.            *)
(***************************************************************************)
FromArticulationTable(item, phoneme) ==
    /\ item.tip.v = ARTICULATION_TIPS[phoneme].tip
    /\ item.visual_cue.v = ARTICULATION_TIPS[phoneme].visual_cue
    /\ item.mouth_position.v = ARTICULATION_TIPS[phoneme].mouth_position

C18_GuidanceIffConfident ==
    phoneme_feedback # <<>> =>
        \A i \in 1..Len(phoneme_scores) :
            LET item == phoneme_feedback[1][i]
                p == phoneme_scores[i]
            IN  /\ item.needs_practice.v <=> p.confidence < 7500
                /\ item.show_specific_guidance.v <=> p.confidence >= 7500
                /\ item.needs_practice.v # item.show_specific_guidance.v
                /\ p.phoneme \in DOMAIN ARTICULATION_TIPS =>
                       (FromArticulationTable(item, p.phoneme)
                            <=> p.confidence >= 7500)

\* one list with an "s" at exactly 0.75, guided from the table, and an "s"
\* just below, not guided
C18_Witness ==
    /\ phoneme_feedback # <<>>
    /\ Len(phoneme_scores) = 2
    /\ phoneme_scores[1] = [phoneme |-> "s", expected |-> "s", confidence |-> 7500]
    /\ phoneme_scores[2] = [phoneme |-> "s", expected |-> "s", confidence |-> 7400]
    /\ FromArticulationTable(phoneme_feedback[1][1], "s")
    /\ phoneme_feedback[1][2].needs_practice.v
    /\ ~FromArticulationTable(phoneme_feedback[1][2], "s")

(***************************************************************************)
(* C19: for a phoneme whose confidence is below 0.75, every text field of  *)
(* its feedback item (tip, encouragement, explanation) is one of the       *)
(* generic encouragement phrases and does not name the sound.              *)
(***************************************************************************)
GenericPhrases ==
    Range(GENERAL_ENCOURAGEMENT) \cup Range(ADDITIONAL_ENCOURAGEMENT)

TextFields(item) ==
    {item[k].v : k \in DOMAIN item \cap {"tip", "encouragement", "explanation"}}

NamesTheSound(text, phoneme) == Contains(Lower(text), "'" \o phoneme \o "'")

C19_LowConfidenceStaysGeneric ==
    phoneme_feedback # <<>> =>
        \A i \in 1..Len(phoneme_scores) :
            phoneme_scores[i].confidence < 7500 =>
                \A text \in TextFields(phoneme_feedback[1][i]) :
                    /\ text \in GenericPhrases
                    /\ ~NamesTheSound(text, phoneme_scores[i].phoneme)

(***************************************************************************)
(* Specification SpecTier: the two threshold functions of ethics.py on a   *)
(* confidence.                                                             *)
(***************************************************************************)
\* every half percent from 0 to 1, and the values just below the thresholds
TierConfidences ==
    {50 * k : k \in 0..200} \cup {5999, 7499, 8499}

InitTier ==
    /\ confidence \in {<<c>> : c \in TierConfidences}
    /\ expected_phoneme = ""
    /\ detected_phoneme = ""
    /\ acoustic_score = <<>>
    /\ variation = 0
    /\ adjusted = <<>>
    /\ FeedbackIdle
    /\ SafetyIdle
    /\ ScoreIdle
    /\ ExerciseIdle
    /\ ProgressIdle
    /\ PipelineIdle

\* get_encouragement_level(confidence) and
\* should_give_corrective_feedback(confidence)
GetEncouragementLevel ==
    /\ encouragement_level = ""
    /\ encouragement_level' = get_encouragement_level(confidence[1])
    /\ corrective_feedback' = <<should_give_corrective_feedback(confidence[1])>>
    /\ UNCHANGED <<phoneme_feedback, overall, safetyVars, confidenceVars,
                   scoreVars, exerciseVars, progressVars, pipelineVars>>

NextTier == GetEncouragementLevel

SpecTier == InitTier /\ [][NextTier]_vars

(***************************************************************************)
(* C20: get_encouragement_level gives every confidence one tier:           *)
(* excellent from 0.85, good from 0.75 to below 0.85, try_again from 0.60  *)
(* to below 0.75, neutral below 0.60; should_give_corrective_feedback      *)
(* permits specific guidance exactly in the tiers excellent and good.      *)
(***************************************************************************)
C20_TierOfConfidence ==
    encouragement_level # "" =>
        LET c == confidence[1] IN
        /\ encouragement_level
               \in {"excellent", "good", "try_again", "neutral"}
        /\ encouragement_level = "excellent" <=> c >= 8500
        /\ encouragement_level = "good" <=> (c >= 7500 /\ c < 8500)
        /\ encouragement_level = "try_again" <=> (c >= 6000 /\ c < 7500)
        /\ encouragement_level = "neutral" <=> c < 6000
        /\ corrective_feedback[1]
               <=> encouragement_level \in {"excellent", "good"}

\* the lowest confidence of the tier good, with guidance permitted
C20_Witness ==
    /\ confidence = <<7500>>
    /\ encouragement_level = "good"
    /\ corrective_feedback = <<TRUE>>

\* the highest modelled confidence of the tier try_again, without guidance
C20_WitnessBelow ==
    /\ confidence = <<7499>>
    /\ encouragement_level = "try_again"
    /\ corrective_feedback = <<FALSE>>

(***************************************************************************)
(* Specification SpecOverall: the overall score of an analysis,            *)
(* int(np.mean([p["confidence"] for p in phoneme_scores]) * 100) (lines    *)
(* 144 and 163), on a list of phoneme scores.  On the lists of             *)
(* InitOverall the floating-point value and the exact one truncate to the  *)
(* same integer.                                                           *)
(***************************************************************************)
\* the longest list of phoneme scores
MaxOverall == 3

OverallConfidences == {5500, 7500, 7600, 9000}

OverallScores ==
    {[phoneme |-> "s", expected |-> "s", confidence |-> c] :
        c \in OverallConfidences}

InitOverall ==
    /\ phoneme_scores \in UNION {[1..n -> OverallScores] : n \in 1..MaxOverall}
    /\ overall = <<>>
    /\ phoneme_feedback = <<>>
    /\ encouragement_level = ""
    /\ corrective_feedback = <<>>
    /\ POCKETSPHINX_AVAILABLE = FALSE
    /\ decoder = FALSE
    /\ target_word = ""
    /\ decoding = [outcome |-> "none", segments |-> <<>>]
    /\ audio_quality = <<>>
    /\ scored = FALSE
    /\ SafetyIdle
    /\ ConfidenceIdle
    /\ ExerciseIdle
    /\ ProgressIdle
    /\ PipelineIdle

ComputeOverall ==
    /\ overall = <<>>
    /\ overall' = <<OverallScore(phoneme_scores)>>
    /\ UNCHANGED <<phoneme_feedback, encouragement_level, corrective_feedback,
                   safetyVars, confidenceVars, scoreVars, exerciseVars,
                   progressVars, pipelineVars>>

NextOverall == ComputeOverall

SpecOverall == InitOverall /\ [][NextOverall]_vars

(***************************************************************************)
(* C21: the overall score of an analysis is the mean of the phoneme        *)
(* confidences times 100 rounded to the nearest integer (it is no further  *)
(* than one half from the exact value, whichever way a tie is rounded),    *)
(* and it lies in 0..100.                                                  *)
(***************************************************************************)
Abs(x) == IF x < 0 THEN -x ELSE x

C21_OverallIsRoundedMean ==
    overall # <<>> =>
        LET n == Len(phoneme_scores)
            sum == SumConfidence(phoneme_scores)
        IN  /\ overall[1] \in 0..100
            /\ 2 * Abs(100 * n * overall[1] - sum) <= 100 * n

(***************************************************************************)
(* C22: the articulation drills generate_exercises emits are those of the  *)
(* phonemes with confidence < 0.75, worst first, at most three of them:    *)
(* for each kept phoneme its isolation drill, then its syllable drill,     *)
(* then its word drill, and every kept phoneme gets its drills.            *)
(***************************************************************************)
IsArticulation(ex) == ex.type = "articulation"

DrillLevels == <<"isolation", "syllable", "word">>

\* the three drills at positions 3j-2 .. 3j are those of `phoneme`
IsProgression(arts, j, phoneme) ==
    /\ phoneme \in DOMAIN ARTICULATION_EXERCISES
    /\ \A l \in 1..3 :
           LET ex == arts[3 * (j - 1) + l] IN
           /\ ex.phoneme = phoneme
           /\ ex.level = DrillLevels[l]
           /\ ex.instruction = ARTICULATION_EXERCISES[phoneme][l].exercise
           /\ ex.repetitions = ARTICULATION_EXERCISES[phoneme][l].repetitions

\* kept[j] is the index in phoneme_scores of the j-th kept phoneme: the
\* kept ones are low, distinct, in ascending order of confidence, and no
\* phoneme left out is worse than a kept one
IsWorstFirst(kept, low) ==
    /\ \A j \in DOMAIN kept : kept[j] \in low
    /\ \A i, j \in DOMAIN kept : i < j =>
           /\ kept[i] # kept[j]
           /\ phoneme_scores[kept[i]].confidence
                  <= phoneme_scores[kept[j]].confidence
    /\ \A i \in low \ Range(kept) : \A j \in DOMAIN kept :
           phoneme_scores[kept[j]].confidence <= phoneme_scores[i].confidence

C22_DrillsWorstFirst ==
    exercises # <<>> =>
        LET arts == SelectSeq(exercises[1], IsArticulation)
            low == {i \in 1..Len(phoneme_scores) :
                        phoneme_scores[i].confidence < 7500}
            k == Min(3, Cardinality(low))
        IN  /\ Len(arts) = 3 * k
            /\ \E kept \in [1..k -> 1..Len(phoneme_scores)] :
                   /\ IsWorstFirst(kept, low)
                   /\ \A j \in 1..k :
                          IsProgression(arts, j, phoneme_scores[kept[j]].phoneme)

(***************************************************************************)
(* C23: when no phoneme of the session has a confidence below 0.75,        *)
(* generate_exercises returns a list of exactly one drill, a celebration   *)
(* or challenge.                                                           *)
(***************************************************************************)
C23_SingleCelebration ==
    (/\ exercises # <<>>
     /\ \A i \in 1..Len(phoneme_scores) : phoneme_scores[i].confidence >= 7500)
        => /\ Len(exercises[1]) = 1
           /\ exercises[1][1].type \in {"celebration", "challenge"}

(***************************************************************************)
(* C24: the base confidence calculate_phoneme_confidence picks for an      *)
(* (expected, detected) pair, before the acoustic averaging and the        *)
(* jitter, is 0.95 for an exact match, 0.92 for a recognised dialect pair, *)
(* 0.75 when both are vowels, 0.70 for a known confusion pair in either    *)
(* order (/p/-/b/ and /th/-/f/ among them), and 0.60 for every other pair. *)
(***************************************************************************)
IsConfusionPair(expected, detected) ==
    \/ <<expected, detected>> \in SimilarConsonants
    \/ <<detected, expected>> \in SimilarConsonants

C24_BaseConfidenceTable ==
    confidence # <<>> =>
        LET e == expected_phoneme
            d == detected_phoneme
            base == BaseConfidence(e, d)
        IN  IF e = d THEN base = 9500
            ELSE IF e \in DOMAIN DIALECT_VARIATIONS
                    /\ d \in DIALECT_VARIATIONS[e] THEN base = 9200
            ELSE IF e \in VowelSymbols /\ d \in VowelSymbols THEN base = 7500
            ELSE IF IsConfusionPair(e, d) THEN base = 7000
            ELSE base = 6000

(***************************************************************************)
(* C25: whenever an acoustic likelihood is supplied, the best possible     *)
(* value 0 included, the confidence before the jitter is the arithmetic    *)
(* mean of the table value and the likelihood normalised into [0, 1]; the  *)
(* table value is used alone only when no likelihood is supplied.          *)
(***************************************************************************)
\* min(1.0, max(0.0, (acoustic_score + 5000) / 5000)), in 1/10000
NormalisedLikelihood(score) == Min(10000, Max(0, (score + 5000) * 2))

MeanWithLikelihood(base, score) ==
    IF score = <<>> THEN base
    ELSE (base + NormalisedLikelihood(score[1])) \div 2

C25_MeanWheneverSupplied ==
    confidence # <<>> =>
        LET base == BaseConfidence(expected_phoneme, detected_phoneme)
            before_jitter == MeanWithLikelihood(base, acoustic_score)
        IN  confidence[1]
                = Round2(Clip(before_jitter + variation, 5000, 10000), 1)

(***************************************************************************)
(* C26: on the mock path the confidence of a phoneme of the difficult set  *)
(* (r, s, th, l) lies in [0.60, 0.85] and the confidence of every other    *)
(* phoneme lies in [0.75, 0.95], for every audio and every position.       *)
(***************************************************************************)
C26_MockRanges ==
    scored =>
        \A i \in 1..Len(phoneme_scores) :
            LET score == phoneme_scores[i] IN
            "is_mock" \in DOMAIN score =>
                IF score.detected \in difficult_sounds
                THEN score.confidence >= 6000 /\ score.confidence <= 8500
                ELSE score.confidence >= 7500 /\ score.confidence <= 9500

(***************************************************************************)
(* Specification SpecFeedbackTwice: generate_feedback called twice on the  *)
(* same list of one phoneme score.  The draws of random.choice come from   *)
(* the state of the module-level generator, which each call moves on.      *)
(***************************************************************************)
InitFeedbackTwice ==
    /\ phoneme_scores \in [1..1 -> FeedbackScores]
    /\ phoneme_feedback = <<>>
    /\ encouragement_level = ""
    /\ corrective_feedback = <<>>
    /\ overall = <<>>
    /\ POCKETSPHINX_AVAILABLE = FALSE
    /\ decoder = FALSE
    /\ target_word = ""
    /\ decoding = [outcome |-> "none", segments |-> <<>>]
    /\ audio_quality = <<>>
    /\ scored = FALSE
    /\ SafetyIdle
    /\ ConfidenceIdle
    /\ ExerciseIdle
    /\ ProgressIdle
    /\ PipelineIdle

\* the second call, on the same argument
GenerateFeedbackAgain ==
    /\ Len(phoneme_feedback) = 1
    /\ \E picks \in [1..Len(phoneme_scores) -> (0..MaxPick) \X (0..MaxPick)] :
           phoneme_feedback' =
               Append(phoneme_feedback, generate_feedback(phoneme_scores, picks))
    /\ UNCHANGED <<encouragement_level, corrective_feedback, overall, safetyVars,
                   confidenceVars, scoreVars, exerciseVars, progressVars,
                   pipelineVars>>

NextFeedbackTwice == GenerateFeedback \/ GenerateFeedbackAgain

SpecFeedbackTwice == InitFeedbackTwice /\ [][NextFeedbackTwice]_vars

(***************************************************************************)
(* C27: two calls of generate_feedback with the same phoneme and the same  *)
(* confidence return identical feedback items (tip, visual cue, mouth      *)
(* position, needs_practice, encouragement).                               *)
(***************************************************************************)
C27_SameInputSameFeedback ==
    Len(phoneme_feedback) = 2 =>
        \A i \in 1..Len(phoneme_scores) :
            \A key \in {"tip", "visual_cue", "mouth_position",
                        "needs_practice", "encouragement"} :
                phoneme_feedback[1][i][key] = phoneme_feedback[2][i][key]

(***************************************************************************)
(* C28: a tracked analysis whose audio loads returns a result, however     *)
(* many tracked analyses of the same user and word are already recorded:   *)
(* computing progress against a non-empty history never makes it fail.     *)
(***************************************************************************)
C28_TrackedAnalysisReturns ==
    response # <<>> =>
        LET req == requests[response[1].request] IN
        (req.include_progress /\ req.audio_file.load)
            => response[1].outcome.ok

(***************************************************************************)
(* ethics.validate_no_harsh_language                                       *)
(***************************************************************************)
banned_words ==
    <<"wrong", "bad", "incorrect", "failed", "poor", "terrible",
      "error", "mistake", "penalty", "punishment">>

validate_no_harsh_language(text) ==
    \A i \in 1..Len(banned_words) : ~Contains(Lower(text), banned_words[i])

(***************************************************************************)
(* C29: every string that has passed through ensure_child_safety is        *)
(* accepted by validate_no_harsh_language: the filter's replacement list   *)
(* covers every word the validator rejects.                                *)
(***************************************************************************)
\* the strings the filter looks at: the values of a dict, of a nested dict
\* and of a dict inside a list
RECURSIVE FilteredStrings(_)
FilteredStrings(fb) ==
    UNION {LET value == fb[key] IN
           CASE value.t = "str"  -> {value.v}
             [] value.t = "dict" -> FilteredStrings(value.v)
             [] value.t = "list" ->
                    UNION {IF value.v[i].t = "dict"
                           THEN FilteredStrings(value.v[i].v) ELSE {} :
                               i \in 1..Len(value.v)}
             [] OTHER -> {} : key \in DOMAIN fb}

C29_FilteredTextIsValid ==
    Len(returned) >= 1 =>
        /\ \A s \in FilteredStrings(returned[1]) : validate_no_harsh_language(s)
        /\ Range(banned_words) \subseteq BannedWords

(***************************************************************************)
(* C30: the two dialect tables agree: every (expected, detected) pair of   *)
(* the scorer's DIALECT_VARIATIONS, both symbols mapped through            *)
(* CMU_TO_SIMPLE, is accepted by is_dialect_variation, and every pair      *)
(* is_dialect_variation accepts is such a mapped pair.                     *)
(***************************************************************************)
C30_DialectTablesAgree ==
    adjusted # <<>> =>
        /\ \A e \in DOMAIN DIALECT_VARIATIONS :
               \A d \in DIALECT_VARIATIONS[e] :
                   is_dialect_variation(SimplePhoneme(e), SimplePhoneme(d))
        /\ is_dialect_variation(expected_phoneme, detected_phoneme) =>
               \E e \in DOMAIN DIALECT_VARIATIONS :
                   \E d \in DIALECT_VARIATIONS[e] :
                       /\ SimplePhoneme(e) = Lower(expected_phoneme)
                       /\ SimplePhoneme(d) = Lower(detected_phoneme)

====
